---------------------------- MODULE Spec2Model ----------------------------
(***************************************************************************)
(* The claude-memory plugin: a session log file (JSON lines), the SQLite   *)
(* store built from it by the Stop hook (sync_current.py) and by the bulk  *)
(* importer (import_conversations.py), and the store's opening and         *)
(* migration (memory_utils.py).                                            *)
(*                                                                         *)
(* A log record is [uuid, parentUuid, timestamp, type, content]; a log     *)
(* file is a sequence of records (its lines).  Timestamps are naturals     *)
(* (the code compares ISO-8601 strings, which order the same way).         *)
(* Message content is a string; ToolResult stands for a content list whose *)
(* first item is a tool_result, and CommandOnly for a string that holds    *)
(* nothing but a <command-name>...</command-name> envelope.                *)
(***************************************************************************)
EXTENDS Integers, Sequences, FiniteSets, Bags, TLC

NULL == "null"

ToolResult == "<tool_result>"

CommandOnly == "<command-name>/clear</command-name>"

\* ---------------------------------------------------------------- bounds

\* Lines of the session log file.
MaxLen == 3

\* Lines of the session log file where a sync runs statement by statement
\* and where the hooks' inputs vary.
MaxShort == 2

\* The largest row id the store hands out (SQLite's rowids are unbounded).
MaxRowId == 4

\* ------------------------------------------------------- small utilities

Max(S) == CHOOSE x \in S : \A y \in S : y <= x

Min(S) == CHOOSE x \in S : \A y \in S : x <= y

Range(s) == {s[i] : i \in 1..Len(s)}

\* SQLite's rowid for a new row of a table with INTEGER PRIMARY KEY.
NextId(rows) == IF rows = {} THEN 1 ELSE Max({r.id : r \in rows}) + 1

\* --------------------------------------------------- content extraction

\* memory_utils.is_tool_result
is_tool_result(content) == content = ToolResult

\* memory_utils.extract_text_content, its text: the command envelopes are
\* cut out of a string and the rest is stripped; a list keeps its text items.
extract_text_content(content) ==
    IF content = ToolResult \/ content = CommandOnly THEN "" ELSE content

\* ----------------------------------------------------------- the parser

\* memory_utils.parse_all_with_uuids: every record that carries a uuid.
parse_all_with_uuids(file) == SelectSeq(file, LAMBDA r : r.uuid # NULL)

\* memory_utils.parse_jsonl_file: the user and assistant records.
parse_jsonl_file(file) ==
    SelectSeq(file, LAMBDA r : ~r.isMeta /\ r.type \in {"user", "assistant"})

\* entry.get(key): NULL where the record has no such key.
Get(entry, key) == IF key \in DOMAIN entry THEN entry[key] ELSE NULL

\* The first value of the key that is not None in the entries, as the loop
\* of extract_session_metadata keeps it.
FirstValue(entries, key) ==
    LET having == {i \in 1..Len(entries) : Get(entries[i], key) # NULL}
    IN  IF having = {} THEN NULL ELSE entries[Min(having)][key]

\* memory_utils.extract_session_metadata: the timestamps, and the first
\* gitBranch and cwd the entries carry.
extract_session_metadata(entries) ==
    LET ts == {entries[i].timestamp : i \in 1..Len(entries)}
    IN  [started_at |-> IF ts = {} THEN 0 ELSE Min(ts),
         ended_at   |-> IF ts = {} THEN 0 ELSE Max(ts),
         git_branch |-> FirstValue(entries, "gitBranch"),
         cwd        |-> FirstValue(entries, "cwd")]

\* An exchange count that takes a tool result for a user turn.
compute_branch_metadata_all(entries) ==
    Cardinality({i \in 1..Len(entries) : entries[i].type = "user"})

\* memory_utils.compute_branch_metadata, its exchange count: the user
\* records that are no tool results.
compute_branch_metadata(entries) ==
    Cardinality({i \in 1..Len(entries) :
                    /\ entries[i].type = "user"
                    /\ ~is_tool_result(entries[i].content)})

\* ----------------------------------------------------- the branch detector

\* The keys of uuid_to_entry in the order Python's dict keeps them: the
\* order of each uuid's first line.
RECURSIVE KeysOf(_)
KeysOf(es) ==
    IF es = <<>> THEN <<>>
    ELSE LET front == KeysOf(SubSeq(es, 1, Len(es) - 1))
             u     == es[Len(es)].uuid
         IN  IF u \in Range(front) THEN front ELSE Append(front, u)

\* uuid_to_entry[u]: the last line that carries the uuid.
uuid_to_entry(es, u) == es[Max({i \in 1..Len(es) : es[i].uuid = u})]

\* uuid_to_parent.get(u)
uuid_to_parent(es, u) ==
    IF \E i \in 1..Len(es) : es[i].uuid = u
    THEN uuid_to_entry(es, u).parentUuid
    ELSE NULL

\* children.get(p, []): one item per line whose parentUuid is p.
children(es, p) ==
    LET kids == SelectSeq(es, LAMBDA r : r.parentUuid = p)
    IN  [i \in 1..Len(kids) |-> kids[i].uuid]

\* A detector that takes the first record for the latest.
LatestOf_first(es) == es[1]

\* max(uuid_to_entry.values(), key=timestamp): the first of the greatest.
LatestOf(es) ==
    LET keys == KeysOf(es)
        top  == Max({uuid_to_entry(es, keys[i]).timestamp : i \in 1..Len(keys)})
        i0   == Min({i \in 1..Len(keys) : uuid_to_entry(es, keys[i]).timestamp = top})
    IN  uuid_to_entry(es, keys[i0])

\* The walk "while current: add; current = uuid_to_parent.get(current)".
\* It ends only when the parent pointers from u reach a root.
RECURSIVE PathToRoot(_, _, _)
PathToRoot(es, u, seen) ==
    IF u = NULL \/ u \in seen THEN seen
    ELSE PathToRoot(es, uuid_to_parent(es, u), seen \cup {u})

RECURSIVE WalkEnds(_, _, _)
WalkEnds(es, u, seen) ==
    IF u = NULL THEN TRUE
    ELSE IF u \in seen THEN FALSE
    ELSE WalkEnds(es, uuid_to_parent(es, u), seen \cup {u})

\* The depth cap of has_user_descendant.
DepthCap == 100

RECURSIVE has_user_descendant(_, _, _)
has_user_descendant(es, u, depth) ==
    IF depth > DepthCap THEN FALSE
    ELSE \/ /\ \E i \in 1..Len(es) : es[i].uuid = u
            /\ uuid_to_entry(es, u).type = "user"
         \/ LET kids == children(es, u)
            IN  \E i \in 1..Len(kids) : has_user_descendant(es, kids[i], depth + 1)

\* collect_subtree: the uuid and everything below it in the children map.
RECURSIVE collect_subtree(_, _)
collect_subtree(es, u) ==
    {u} \cup UNION {collect_subtree(es, k) : k \in Range(children(es, u))}

\* The children map has no cycle: collect_subtree ends on every uuid.
RECURSIVE NoCycleBelow(_, _, _)
NoCycleBelow(es, u, above) ==
    /\ u \notin above
    /\ \A k \in Range(children(es, u)) : NoCycleBelow(es, k, above \cup {u})

Acyclic(es) ==
    \A i \in 1..Len(es) : NoCycleBelow(es, es[i].uuid, {})

\* The leaf of an abandoned subtree: max(subtree_entries, key=timestamp).
\* Python iterates the set; with distinct timestamps the greatest is one.
SubtreeLeaf(es, subtree) ==
    LET ents == {uuid_to_entry(es, u) :
                    u \in {v \in subtree : \E i \in 1..Len(es) : es[i].uuid = v}}
    IN  CHOOSE e \in ents : \A o \in ents : o.timestamp <= e.timestamp

\* The abandoned branches of one fork point u, one per non-active child
\* line with a user record below it, in the order of the children list.
ForkBranches(es, active, u) ==
    LET kids == children(es, u)
        keep == SelectSeq(kids, LAMBDA k :
                    k \notin active /\ has_user_descendant(es, k, 0))
    IN  IF Len(kids) <= 1 THEN <<>>
        ELSE [i \in 1..Len(keep) |->
                LET subtree == collect_subtree(es, keep[i])
                IN  [leaf_uuid       |-> SubtreeLeaf(es, subtree).uuid,
                     uuids           |-> PathToRoot(es, u, {}) \cup subtree,
                     is_active       |-> FALSE,
                     fork_point_uuid |-> u]]

RECURSIVE AbandonedBranches(_, _, _)
AbandonedBranches(es, active, order) ==
    IF order = <<>> THEN <<>>
    ELSE ForkBranches(es, active, Head(order))
            \o AbandonedBranches(es, active, Tail(order))

\* The active uuids with more than one child line: the fork points.
ForkPoints(es) ==
    {u \in PathToRoot(es, LatestOf(es).uuid, {}) : Len(children(es, u)) > 1}

\* The orders in which "for uuid in active_uuids" may visit the fork points
\* (a Python set of strings has no fixed order).
Orders(S) ==
    {o \in [1..Cardinality(S) -> S] : \A i, j \in DOMAIN o : i # j => o[i] # o[j]}

\* memory_utils.find_all_branches: the active branch first, then the
\* abandoned ones.  order lists the fork points in the order visited.
find_all_branches(es, order) ==
    IF es = <<>> THEN <<>>
    ELSE LET latest == LatestOf(es)
             active == PathToRoot(es, latest.uuid, {})
         IN  << [leaf_uuid       |-> latest.uuid,
                 uuids           |-> active,
                 is_active       |-> TRUE,
                 fork_point_uuid |-> NULL] >>
             \o AbandonedBranches(es, active, order)

\* ---------------------------------------------------------------- the store

\* The tables a schema defines.  "v3" is memory_utils.SCHEMA, "v2" is
\* import_conversations.SCHEMA, "none" is a database file with no table.
TablesOf(schema) ==
    CASE schema = "v3" -> {"projects", "sessions", "branches", "messages",
                           "branch_messages", "messages_fts", "import_log"}
      [] schema = "v2" -> {"projects", "sessions", "messages", "messages_fts",
                           "import_log"}
      [] OTHER         -> {}

\* A database file of the given schema with no row.
EmptyDb(schema) ==
    [schema          |-> schema,
     projects        |-> {},
     sessions        |-> {},
     branches        |-> {},
     messages        |-> {},
     branch_messages |-> {},
     fts             |-> EmptyBag,
     import_log      |-> {}]

\* A connection: the database as the connection sees it (its open
\* transaction included), sqlite3's total_changes, and whether a statement
\* has raised.
Connect(db) == [db |-> db, changes |-> 0, err |-> FALSE, ret |-> 0]

\* A store whose delete trigger leaves the index as it is.
messages_ad_dropped(fts, old) == fts

\* The three triggers that keep messages_fts in step with messages.
messages_ai(fts, new) ==
    fts (+) SetToBag({[rowid |-> new.id, content |-> new.content]})

messages_ad(fts, old) ==
    fts (-) SetToBag({[rowid |-> old.id, content |-> old.content]})

RECURSIVE DeleteFromFts(_, _)
DeleteFromFts(fts, rows) ==
    IF rows = {} THEN fts
    ELSE LET r == CHOOSE x \in rows : TRUE
         IN  DeleteFromFts(messages_ad(fts, r), rows \ {r})

\* DELETE FROM messages WHERE ...: the rows go, and messages_ad fires on each.
DeleteMessages(c, gone) ==
    [c EXCEPT !.db.messages = @ \ gone,
              !.db.fts      = DeleteFromFts(@, gone),
              !.changes     = @ + Cardinality(gone)]

\* INSERT INTO messages ... ON CONFLICT(session_id, uuid) DO NOTHING, and
\* messages_ai on the row inserted.
InsertMessage(c, row) ==
    IF row.uuid # NULL /\ \E m \in c.db.messages :
            m.session_id = row.session_id /\ m.uuid = row.uuid
    THEN c
    ELSE [c EXCEPT !.db.messages = @ \cup {row},
                   !.db.fts      = messages_ai(@, row),
                   !.changes     = @ + 1,
                   !.ret         = @ + 1]

\* ------------------------------------------------------- project keys

Replace(s, a, b) == [i \in 1..Len(s) |-> IF s[i] = a THEN b ELSE s[i]]

RECURSIVE LStrip(_, _)
LStrip(s, ch) ==
    IF s # <<>> /\ Head(s) = ch THEN LStrip(Tail(s), ch) ELSE s

\* sync_session's project_path: "/" + key.replace("-", "/").lstrip("/")
project_path_of(key) == <<"/">> \o LStrip(Replace(key, "-", "/"), "/")

\* ------------------------------------------------ sync_session, by steps

\* INSERT INTO projects ... ON CONFLICT(path) DO NOTHING
sync_upsert_project(c, key) ==
    IF \E p \in c.db.projects : p.path = project_path_of(key)
    THEN c
    ELSE [c EXCEPT !.db.projects = @ \cup
                        {[id |-> NextId(c.db.projects),
                          path |-> project_path_of(key), key |-> key]},
                   !.changes = @ + 1]

ProjectId(c, key) ==
    (CHOOSE p \in c.db.projects : p.path = project_path_of(key)).id

\* The values of sessions.parent_session_id, an INTEGER REFERENCES column:
\* NULL, or the id it holds.
NullRef == <<>>

Ref(id) == <<id>>

\* SQL's COALESCE(x, y)
COALESCE(x, y) == IF x # NULL THEN x ELSE y

\* A sessions row of memory_utils.SCHEMA as the model keeps it.
SessionRow(id, uuid, project_id, parent_session_id, git_branch, cwd) ==
    [id |-> id, uuid |-> uuid, project_id |-> project_id,
     parent_session_id |-> parent_session_id,
     git_branch |-> git_branch, cwd |-> cwd]

\* Step 1: INSERT INTO sessions (uuid, project_id, git_branch, cwd) ...
\* ON CONFLICT(uuid) DO UPDATE SET git_branch = COALESCE(excluded.git_branch,
\* sessions.git_branch), cwd = COALESCE(excluded.cwd, sessions.cwd)
sync_upsert_session(c, session_uuid, project_id, meta) ==
    IF \E s \in c.db.sessions : s.uuid = session_uuid
    THEN [c EXCEPT !.db.sessions =
                        {IF s.uuid = session_uuid
                         THEN [s EXCEPT
                                 !.git_branch = COALESCE(meta.git_branch, Get(s, "git_branch")),
                                 !.cwd = COALESCE(meta.cwd, Get(s, "cwd"))]
                         ELSE s : s \in @},
                   !.changes = @ + 1]
    ELSE [c EXCEPT !.db.sessions = @ \cup
                        {SessionRow(NextId(c.db.sessions), session_uuid,
                                    project_id, NullRef, meta.git_branch, meta.cwd)},
                   !.changes = @ + 1]

SessionId(c, session_uuid) ==
    (CHOOSE s \in c.db.sessions : s.uuid = session_uuid).id

\* Step 2: insert every message once; a uuid the session already stores
\* is skipped.
RECURSIVE sync_insert_messages(_, _, _, _)
sync_insert_messages(c, sid, messages, existing_uuids) ==
    IF messages = <<>> THEN c
    ELSE LET entry == Head(messages)
             text  == extract_text_content(entry.content)
         IN  IF \/ entry.type = "user" /\ is_tool_result(entry.content)
                \/ text = ""
                \/ entry.uuid # NULL /\ entry.uuid \in existing_uuids
             THEN sync_insert_messages(c, sid, Tail(messages), existing_uuids)
             ELSE sync_insert_messages(
                    InsertMessage(c, [id          |-> NextId(c.db.messages),
                                      session_id  |-> sid,
                                      uuid        |-> entry.uuid,
                                      parent_uuid |-> entry.parentUuid,
                                      timestamp   |-> entry.timestamp,
                                      role        |-> entry.type,
                                      content     |-> text]),
                    sid, Tail(messages),
                    IF entry.uuid # NULL THEN existing_uuids \cup {entry.uuid}
                                         ELSE existing_uuids)

ExistingUuids(c, sid) ==
    {m.uuid : m \in {x \in c.db.messages : x.session_id = sid /\ x.uuid # NULL}}

\* Step 3: uuid_to_msg_id, as the set of message rows it maps to.
UuidToMsg(c, sid) ==
    {m \in c.db.messages : m.session_id = sid /\ m.uuid # NULL}

\* Step 4: existing_branches, the session's branch rows read before the loop.
ExistingBranches(c, sid) == {b \in c.db.branches : b.session_id = sid}

\* The branch row's columns computed from the branch's message records.
BranchColumns(branch, messages) ==
    LET branch_msgs == SelectSeq(messages, LAMBDA m : m.uuid \in branch.uuids)
        meta        == extract_session_metadata(branch_msgs)
    IN  [leaf_uuid       |-> branch.leaf_uuid,
         fork_point_uuid |-> branch.fork_point_uuid,
         is_active       |-> IF branch.is_active THEN 1 ELSE 0,
         started_at      |-> meta.started_at,
         ended_at        |-> meta.ended_at,
         exchange_count  |-> compute_branch_metadata(branch_msgs)]

\* The row id the loop body works on: the row read before the loop, or the
\* row it inserts.
BranchDbId(c, existing_branches, branch) ==
    IF \E b \in existing_branches : b.leaf_uuid = branch.leaf_uuid
    THEN (CHOOSE b \in existing_branches : b.leaf_uuid = branch.leaf_uuid).id
    ELSE NextId(c.db.branches)

\* UPDATE branches ... WHERE id = ?, or INSERT INTO branches, which raises
\* sqlite3.IntegrityError on UNIQUE(session_id, leaf_uuid).
branch_upsert(c, sid, existing_branches, branch, messages) ==
    LET cols == BranchColumns(branch, messages)
        id   == BranchDbId(c, existing_branches, branch)
        row  == [id |-> id, session_id |-> sid] @@ cols
    IN  IF \E b \in existing_branches : b.leaf_uuid = branch.leaf_uuid
        THEN [c EXCEPT !.db.branches = {b \in @ : b.id # id} \cup {row},
                       !.changes = @ + 1]
        ELSE IF \E b \in c.db.branches :
                    b.session_id = sid /\ b.leaf_uuid = branch.leaf_uuid
        THEN [c EXCEPT !.err = TRUE]
        ELSE [c EXCEPT !.db.branches = @ \cup {row}, !.changes = @ + 1]

\* UPDATE branches SET is_active = 0 WHERE session_id = ? AND id != ? AND
\* is_active = 1, run for an active branch only.
branch_deactivate_others(c, sid, branch_db_id, branch) ==
    IF ~branch.is_active THEN c
    ELSE LET hit == {b \in c.db.branches :
                        b.session_id = sid /\ b.id # branch_db_id /\ b.is_active = 1}
         IN  [c EXCEPT !.db.branches =
                            (@ \ hit) \cup {[b EXCEPT !.is_active = 0] : b \in hit},
                       !.changes = @ + Cardinality(hit)]

\* DELETE FROM branch_messages WHERE branch_id = ?
branch_clear_messages(c, branch_db_id) ==
    LET gone == {bm \in c.db.branch_messages : bm.branch_id = branch_db_id}
    IN  [c EXCEPT !.db.branch_messages = @ \ gone,
                  !.changes = @ + Cardinality(gone)]

\* INSERT OR IGNORE INTO branch_messages for every uuid of the branch that
\* uuid_to_msg_id resolves.
branch_fill_messages(c, branch_db_id, branch, uuid_to_msg) ==
    LET new == {[branch_id |-> branch_db_id, message_id |-> m.id] :
                    m \in {x \in uuid_to_msg : x.uuid \in branch.uuids}}
    IN  [c EXCEPT !.db.branch_messages = @ \cup new,
                  !.changes = @ + Cardinality(new \ c.db.branch_messages)]

\* One pass of "for branch in branches".
sync_branch(c, sid, existing_branches, branch, messages, uuid_to_msg) ==
    LET id == BranchDbId(c, existing_branches, branch)
        c1 == branch_upsert(c, sid, existing_branches, branch, messages)
    IN  IF c1.err THEN c1
        ELSE branch_fill_messages(
                branch_clear_messages(
                    branch_deactivate_others(c1, sid, id, branch), id),
                id, branch, uuid_to_msg)

RECURSIVE sync_branches(_, _, _, _, _, _)
sync_branches(c, sid, existing_branches, branches, messages, uuid_to_msg) ==
    IF branches = <<>> \/ c.err THEN c
    ELSE sync_branches(
            sync_branch(c, sid, existing_branches, Head(branches), messages,
                        uuid_to_msg),
            sid, existing_branches, Tail(branches), messages, uuid_to_msg)

\* Step 5: the branch rows read before the loop whose leaf is no longer
\* detected go, with their branch_messages rows.
sync_delete_stale(c, existing_branches, branches) ==
    LET current_leaf_uuids == {branches[i].leaf_uuid : i \in 1..Len(branches)}
        stale == {b.id : b \in {x \in existing_branches :
                                    x.leaf_uuid \notin current_leaf_uuids}}
        gone_bm == {bm \in c.db.branch_messages : bm.branch_id \in stale}
        gone_b  == {b \in c.db.branches : b.id \in stale}
    IN  [c EXCEPT !.db.branch_messages = @ \ gone_bm,
                  !.db.branches = @ \ gone_b,
                  !.changes = @ + Cardinality(gone_bm) + Cardinality(gone_b)]

\* A cleanup that keeps the messages of the active branch only.
sync_delete_orphans_active(c, sid) ==
    LET kept == {bm.message_id : bm \in {x \in c.db.branch_messages :
                    \E b \in c.db.branches :
                        b.id = x.branch_id /\ b.session_id = sid /\ b.is_active = 1}}
    IN  DeleteMessages(c, {m \in c.db.messages :
                                m.session_id = sid /\ m.id \notin kept})

\* DELETE FROM messages WHERE session_id = ? AND id NOT IN (the message ids
\* of the session's branch_messages rows)
sync_delete_orphans(c, sid) ==
    LET kept == {bm.message_id : bm \in {x \in c.db.branch_messages :
                    \E b \in c.db.branches :
                        b.id = x.branch_id /\ b.session_id = sid}}
    IN  DeleteMessages(c, {m \in c.db.messages :
                                m.session_id = sid /\ m.id \notin kept})

\* The project directory and the session of this model: the log file is
\* <projects>/-p/s1.jsonl.
ProjectKey == <<"-", "p">>

SessionUuid == "s1"

\* The name of a log file: "<id>.jsonl", or "agent-<id>.jsonl" in the
\* subagents directory of a session.
LogName(agent, id) == [agent |-> agent, id |-> id]

MainLog == LogName(FALSE, SessionUuid)

\* session_uuid = filepath.stem, without a leading "agent-".
session_uuid_of(name) ==
    LET stem == IF name.agent THEN <<"agent-", name.id>> ELSE <<name.id>>
    IN  IF Head(stem) = "agent-" THEN stem[2] ELSE stem[1]

\* sync_current.sync_session on an open connection and the log file of the
\* given name.  readable: the log file can be opened; order: the order the
\* fork points are visited in.
sync_session_file(c, name, file, order, readable) ==
    LET c1 == sync_upsert_project(c, ProjectKey)
        session_uuid == session_uuid_of(name)
    IN  IF ~readable THEN [c1 EXCEPT !.err = TRUE]
        ELSE
        LET all_entries == parse_all_with_uuids(file)
            messages    == parse_jsonl_file(file)
        IN  IF all_entries = <<>> \/ messages = <<>> THEN c1
            ELSE
            LET branches == find_all_branches(all_entries, order)
                c2  == sync_upsert_session(c1, session_uuid, ProjectId(c1, ProjectKey),
                                           extract_session_metadata(all_entries))
                sid == SessionId(c2, session_uuid)
                c3  == sync_insert_messages(c2, sid, messages, ExistingUuids(c2, sid))
                existing_branches == ExistingBranches(c3, sid)
                c4  == sync_branches(c3, sid, existing_branches, branches,
                                     messages, UuidToMsg(c3, sid))
            IN  IF c4.err THEN c4
                ELSE sync_delete_orphans(
                        sync_delete_stale(c4, existing_branches, branches), sid)

\* sync_session on the log of the main session.
sync_session(c, file, order, readable) ==
    sync_session_file(c, MainLog, file, order, readable)

\* The orders sync_session's branch detection may take on a file.
OrdersOf(file) ==
    IF parse_all_with_uuids(file) = <<>> THEN {<<>>}
    ELSE Orders(ForkPoints(parse_all_with_uuids(file)))

\* ------------------------------------------------------ opening the store

\* A migrate_db that never finds an old schema.
migrate_db_never(db) == FALSE

\* memory_utils.migrate_db: TRUE when the old schema is found (no branches
\* table, a sessions table) and the database file is deleted and recreated.
migrate_db(db) ==
    /\ "branches" \notin TablesOf(db.schema)
    /\ "sessions" \in TablesOf(db.schema)

\* memory_utils.get_db_connection: the database file once it has returned.
get_db_connection(db) ==
    IF migrate_db(db) THEN EmptyDb("v3") ELSE [db EXCEPT !.schema = "v3"]

\* ------------------------------------------------------- the Stop hook

Continue == [continue |-> TRUE]

ContinueSuppress == [continue |-> TRUE, suppressOutput |-> TRUE]

\* What the hook finds on stdin: a JSON object with the session's id, a JSON
\* object without one, text that is no JSON, JSON that is no object.
StdinKinds == {"session", "no_session_id", "not_json", "not_object"}

\* What the hook finds on disk: the log file, a log file it cannot read, no
\* log file for the session, no projects directory.
FsKinds == {"ok", "unreadable", "no_file", "no_projects_dir"}

\* A traceback on stderr and exit status 1: an exception main does not catch.
Crash(db) == [db |-> db, stdout |-> <<>>, exit |-> 1, changes |-> 0, path |-> "crash"]

\* sync_current.main: the database file, stdout and the exit status when
\* the process ends.
stop_hook_main_file(db, name, file, sync_on_stop, stdin, fs, order) ==
    LET quiet == [db |-> db, stdout |-> <<Continue>>, exit |-> 0,
                  changes |-> 0, path |-> "quiet"]
    IN  IF ~sync_on_stop THEN quiet
        ELSE IF stdin = "not_object" THEN Crash(db)
        ELSE IF stdin # "session" THEN quiet
        ELSE IF fs = "no_projects_dir" THEN Crash(db)
        ELSE IF fs = "no_file" THEN quiet
        ELSE LET opened == get_db_connection(db)
                 c      == sync_session_file(Connect(opened), name, file, order,
                                             fs = "ok")
             IN  IF c.err
                 THEN [db |-> opened, stdout |-> <<Continue>>, exit |-> 0,
                       changes |-> c.changes, path |-> "error"]
                 ELSE [db |-> c.db,
                       stdout |-> <<IF c.ret > 0 THEN ContinueSuppress ELSE Continue>>,
                       exit |-> 0, changes |-> c.changes, path |-> "commit"]

\* The Stop hook of the main session.
stop_hook_main(db, file, sync_on_stop, stdin, fs, order) ==
    stop_hook_main_file(db, MainLog, file, sync_on_stop, stdin, fs, order)

\* ------------------------------------------------------ the bulk importer

\* import_conversations.get_file_hash: the MD5 digest of the file's bytes,
\* modelled as a digest without collisions.
get_file_hash(file) == <<"md5", file>>

\* import_conversations.parse_project_key
parse_project_key(key) == <<"/">> \o LStrip(Replace(key, "-", "/"), "/")

\* import_conversations.parse_jsonl_file
import_parse_jsonl_file(file) ==
    SelectSeq(file, LAMBDA r :
        /\ r.type \notin {"progress", "file-history-snapshot", "queue-operation"}
        /\ ~r.isMeta
        /\ r.type \in {"user", "assistant"})

\* import_conversations.init_database runs import_conversations.SCHEMA.  On
\* a store whose sessions table has no started_at column (memory_utils.SCHEMA
\* made it) CREATE INDEX idx_sessions_started raises sqlite3.OperationalError.
init_database_raises(db) == db.schema = "v3"

init_database(db) == [db EXCEPT !.schema = "v2"]

\* INSERT INTO projects ... ON CONFLICT(path) DO UPDATE SET key = excluded.key
import_upsert_project(c, key) ==
    LET path == parse_project_key(key)
    IN  IF \E p \in c.db.projects : p.path = path
        THEN [c EXCEPT !.db.projects =
                            {IF p.path = path THEN [p EXCEPT !.key = key] ELSE p : p \in @},
                       !.changes = @ + 1]
        ELSE [c EXCEPT !.db.projects = @ \cup
                            {[id |-> NextId(c.db.projects), path |-> path, key |-> key]},
                       !.changes = @ + 1]

\* The messages import_session stores: no tool results, no empty text.
ImportStored(entries) ==
    SelectSeq(entries, LAMBDA e :
        /\ ~(e.type = "user" /\ is_tool_result(e.content))
        /\ extract_text_content(e.content) # "")

RECURSIVE import_insert_messages(_, _, _)
import_insert_messages(c, sid, stored) ==
    IF stored = <<>> THEN c
    ELSE LET e   == Head(stored)
             row == [id          |-> NextId(c.db.messages),
                     session_id  |-> sid,
                     uuid        |-> e.uuid,
                     parent_uuid |-> e.parentUuid,
                     timestamp   |-> e.timestamp,
                     role        |-> e.type,
                     content     |-> extract_text_content(e.content)]
         IN  import_insert_messages(
                [c EXCEPT !.db.messages = @ \cup {row},
                          !.db.fts      = messages_ai(@, row),
                          !.changes     = @ + 1,
                          !.ret         = @ + 1],
                sid, Tail(stored))

\* import_conversations.import_session; skipped is its (-1, 0) result.
import_session(c, path, file, project_id, parent_session_id) ==
    LET logged  == {l \in c.db.import_log : l.file_path = path}
        entries == import_parse_jsonl_file(file)
    IN  IF (\E l \in logged : l.file_hash = get_file_hash(file)) \/ entries = <<>>
        THEN [c |-> c, skipped |-> TRUE]
        ELSE
        LET meta   == extract_session_metadata(entries)
            stored == ImportStored(entries)
            session_uuid == session_uuid_of(path)
            old    == {x \in c.db.sessions : x.uuid = session_uuid}
            sid    == IF old = {} THEN NextId(c.db.sessions)
                      ELSE (CHOOSE x \in old : TRUE).id
            srow   == [id |-> sid, uuid |-> session_uuid,
                       project_id |-> IF old = {} THEN project_id
                                      ELSE (CHOOSE x \in old : TRUE).project_id,
                       parent_session_id |->
                            IF old = {} THEN parent_session_id
                            ELSE (CHOOSE x \in old : TRUE).parent_session_id,
                       started_at |-> meta.started_at,
                       ended_at |-> meta.ended_at,
                       git_branch |-> meta.git_branch,
                       cwd |-> meta.cwd,
                       message_count |-> Len(stored),
                       exchange_count |->
                            Cardinality({i \in 1..Len(stored) : stored[i].type = "user"})]
            c1 == [c EXCEPT !.db.sessions = (@ \ old) \cup {srow},
                            !.changes = @ + 2]
            c2 == DeleteMessages(c1, {m \in c1.db.messages : m.session_id = sid})
            c3 == import_insert_messages(c2, sid, stored)
            c4 == [c3 EXCEPT !.db.import_log = (@ \ logged) \cup
                                {[file_path |-> path,
                                  file_hash |-> get_file_hash(file),
                                  messages_imported |-> Len(stored)]},
                             !.changes = @ + 1]
        IN  [c |-> c4, skipped |-> FALSE]

\* import_conversations.main in import mode, over the one project directory
\* and its one log file: the database file when the process ends.
import_main(db, file, fs) ==
    IF init_database_raises(db) \/ fs = "no_projects_dir" THEN Crash(db)
    ELSE LET c1 == import_upsert_project(Connect(init_database(db)), ProjectKey)
         IN  IF fs = "unreadable" THEN Crash(init_database(db))
             ELSE IF fs = "no_file"
             THEN [db |-> c1.db, stdout |-> <<>>, exit |-> 0,
                   changes |-> c1.changes, path |-> "commit"]
             ELSE LET r == import_session(c1, MainLog, file,
                                          ProjectId(c1, ProjectKey), NullRef)
                  IN  [db |-> r.c.db, stdout |-> <<>>, exit |-> 0,
                       changes |-> r.c.changes,
                       path |-> IF r.skipped THEN "skip" ELSE "commit"]

\* ------------------------------------------------------------ the system

\* The names the host gives its records, in the order it uses them up.
UuidNames == <<"a", "b", "c", "d", "e">>

\* The uuid of a record that is in no line of the file (a parent kept in
\* another log, or compacted away).
Elsewhere == "r"

\* The (type, content) pairs of the records the host appends.
Kinds == {<<"user", "x">>, <<"assistant", "x">>}

Used(f) == {f[i].uuid : i \in 1..Len(f)}

\* A new record's uuid: one the file already holds (the line is written
\* again) or the next unused name.
UuidChoices(f) ==
    Used(f) \cup
    {UuidNames[Min({i \in 1..Len(UuidNames) : UuidNames[i] \notin Used(f)})]}

\* The host's clock: a line appended later carries a later timestamp.
NextTs(f) == IF f = <<>> THEN 1 ELSE Max({f[i].timestamp : i \in 1..Len(f)}) + 1

\* The log as the next run of a hook or of the importer may find it: as it
\* was, with one record appended, with its last line removed, or with the
\* text of its opening line altered.  Parent pointers form no cycle.
Appended(f) ==
    {Append(f, [uuid |-> u, parentUuid |-> p, timestamp |-> NextTs(f),
                type |-> k[1], content |-> k[2], isMeta |-> FALSE]) :
        u \in UuidChoices(f), p \in Used(f) \cup {NULL, Elsewhere}, k \in Kinds}

Removed(f) == IF f = <<>> THEN {} ELSE {SubSeq(f, 1, Len(f) - 1)}

Altered(f) ==
    IF f # <<>> /\ f[1].content = "x" THEN {[f EXCEPT ![1].content = "y"]} ELSE {}

Versions(f, n) ==
    {g \in {f} \cup Removed(f) \cup Altered(f)
            \cup (IF Len(f) < n THEN Appended(f) ELSE {}) :
        Acyclic(g)}

\* Row ids stay within the bound.
IdsWithin(d) ==
    /\ \A m \in d.messages : m.id <= MaxRowId
    /\ \A b \in d.branches : b.id <= MaxRowId

VARIABLES
    file,   \* the lines of the session's log file as the last run that
            \* read it to the end found them
    db,     \* the committed contents of the database file: what every
            \* other connection reads
    last,   \* the last run of a hook or of the importer: how it ended,
            \* what it printed, whether its connection wrote a row
    pc,     \* where a Stop hook that runs statement by statement stands
    tx,     \* that hook's connection: the store with its open transaction
    run     \* that hook's inputs and locals

vars == <<file, db, last, pc, tx, run>>

NoRun == [op |-> "none", path |-> "none", stdout |-> <<>>, exit |-> 0,
          wrote |-> FALSE]

NoTx == Connect(EmptyDb("none"))

NoJob == [file |-> <<>>, order |-> <<>>, readable |-> TRUE,
          found |-> EmptyDb("none"), before |-> EmptyDb("none"),
          existing_branches |-> {}, i |-> 0, branch_db_id |-> 0]

Init ==
    /\ file = <<>>
    /\ db = EmptyDb("none")
    /\ last = NoRun
    /\ pc = "idle"
    /\ tx = NoTx
    /\ run = NoJob

\* The host has written the log and raises a well-formed Stop event; the
\* hook runs to its end.
StopHook ==
    /\ pc = "idle"
    /\ \E f \in Versions(file, MaxLen) :
      \E order \in OrdersOf(f) :
        \E r \in {stop_hook_main(db, f, TRUE, "session", "ok", order)} :
            /\ IdsWithin(r.db)
            /\ db' = r.db
            /\ file' = f
            /\ last' = [op |-> "sync", path |-> r.path, stdout |-> r.stdout,
                        exit |-> r.exit, wrote |-> r.changes > 0]
            /\ UNCHANGED <<pc, tx, run>>

\* The host has written the log; the bulk importer runs to its end.  An
\* importer that fails on opening the store reads no log.
BulkImportOf(n) ==
    /\ pc = "idle"
    /\ \E f \in IF init_database_raises(db) THEN {file} ELSE Versions(file, n) :
      \E r \in {import_main(db, f, "ok")} :
          /\ IdsWithin(r.db)
          /\ db' = r.db
          /\ file' = f
          /\ last' = [op |-> "bulk", path |-> r.path, stdout |-> r.stdout,
                      exit |-> r.exit, wrote |-> r.changes > 0]
          /\ UNCHANGED <<pc, tx, run>>

BulkImport == BulkImportOf(MaxLen)

Next ==
    \/ StopHook
    \/ BulkImport

Spec == Init /\ [][Next]_vars

\* ------------------------------------- the Stop hook, statement by statement

\* An except branch that commits what the transaction wrote.
rollback_commits(committed, c) == c.db

\* The uncommitted transaction goes when the process ends without a commit:
\* the database file keeps its committed contents.
rollback(committed, c) == committed

\* conn.commit(): the transaction's contents become the committed ones.
commit(committed, c) == c.db

\* sync_session's locals during a run.
TxSid == SessionId(tx, SessionUuid)

TxMessages == parse_jsonl_file(run.file)

TxBranches == find_all_branches(parse_all_with_uuids(run.file), run.order)

\* sync_current.main on a well-formed Stop event reaches its try block and
\* opens the store; the log may be one the hook cannot read.
TxOpen ==
    /\ pc = "idle"
    /\ \E readable \in BOOLEAN :
         \E f \in IF readable THEN Versions(file, MaxShort) ELSE {file} :
           \E order \in OrdersOf(f) :
             /\ IdsWithin(stop_hook_main(db, f, TRUE, "session", "ok", order).db)
             /\ db' = get_db_connection(db)
             /\ tx' = Connect(db')
             /\ run' = [NoJob EXCEPT !.file = f, !.order = order,
                                     !.readable = readable,
                                     !.found = db, !.before = db']
             /\ last' = [NoRun EXCEPT !.op = "sync", !.path = "running"]
             /\ pc' = "project"
             /\ UNCHANGED file

\* The next step of sync_session on the open connection.
TxStatement ==
    /\ UNCHANGED <<file, db, last>>
    /\ CASE pc = "project" ->
            /\ tx' = sync_upsert_project(tx, ProjectKey)
            /\ pc' = "parse"
            /\ UNCHANGED run
         [] pc = "parse" ->
            /\ tx' = [tx EXCEPT !.err = ~run.readable]
            /\ pc' = IF ~run.readable THEN "except"
                     ELSE IF parse_all_with_uuids(run.file) = <<>> \/ TxMessages = <<>>
                     THEN "commit"
                     ELSE "session"
            /\ UNCHANGED run
         [] pc = "session" ->
            /\ tx' = sync_upsert_session(tx, SessionUuid, ProjectId(tx, ProjectKey),
                                          extract_session_metadata(
                                              parse_all_with_uuids(run.file)))
            /\ pc' = "messages"
            /\ UNCHANGED run
         [] pc = "messages" ->
            /\ tx' = sync_insert_messages(tx, TxSid, TxMessages, ExistingUuids(tx, TxSid))
            /\ run' = [run EXCEPT !.existing_branches = ExistingBranches(tx, TxSid),
                                  !.i = 1]
            /\ pc' = "upsert"
         [] pc = "upsert" ->
            /\ tx' = branch_upsert(tx, TxSid, run.existing_branches,
                                   TxBranches[run.i], TxMessages)
            /\ run' = [run EXCEPT !.branch_db_id =
                            BranchDbId(tx, run.existing_branches, TxBranches[run.i])]
            /\ pc' = IF tx'.err THEN "except" ELSE "deactivate"
         [] pc = "deactivate" ->
            /\ tx' = branch_deactivate_others(tx, TxSid, run.branch_db_id,
                                              TxBranches[run.i])
            /\ pc' = "clear"
            /\ UNCHANGED run
         [] pc = "clear" ->
            /\ tx' = branch_clear_messages(tx, run.branch_db_id)
            /\ pc' = "fill"
            /\ UNCHANGED run
         [] pc = "fill" ->
            /\ tx' = branch_fill_messages(tx, run.branch_db_id, TxBranches[run.i],
                                          UuidToMsg(tx, TxSid))
            /\ run' = [run EXCEPT !.i = @ + 1]
            /\ pc' = IF run.i < Len(TxBranches) THEN "upsert" ELSE "stale"
         [] pc = "stale" ->
            /\ tx' = sync_delete_stale(tx, run.existing_branches, TxBranches)
            /\ pc' = "orphans"
            /\ UNCHANGED run
         [] pc = "orphans" ->
            /\ tx' = sync_delete_orphans(tx, TxSid)
            /\ pc' = "commit"
            /\ UNCHANGED run
         [] OTHER -> FALSE

\* A statement of sync_session raises (the disk is full, the database is
\* locked) once the transaction has written.
TxFail ==
    /\ pc \in {"session", "messages", "upsert", "deactivate", "clear", "fill",
               "stale", "orphans"}
    /\ tx.changes > 0
    /\ tx' = [tx EXCEPT !.err = TRUE]
    /\ pc' = "except"
    /\ UNCHANGED <<file, db, last, run>>

\* sync_session has returned: conn.commit(), and the hook's output.
TxCommit ==
    /\ pc = "commit"
    /\ db' = commit(db, tx)
    /\ last' = [op |-> "sync", path |-> "commit",
                stdout |-> <<IF tx.ret > 0 THEN ContinueSuppress ELSE Continue>>,
                exit |-> 0, wrote |-> tx.changes > 0]
    /\ pc' = "idle"
    /\ tx' = NoTx
    /\ run' = NoJob
    /\ file' = run.file

\* main's except branch: the error is logged, the hook prints its output
\* and exits 0 without a commit.
TxExcept ==
    /\ pc = "except"
    /\ db' = rollback(db, tx)
    /\ last' = [op |-> "sync", path |-> "error", stdout |-> <<Continue>>,
                exit |-> 0, wrote |-> tx.changes > 0]
    /\ pc' = "idle"
    /\ tx' = NoTx
    /\ run' = NoJob
    /\ UNCHANGED file

BulkImportTx == BulkImportOf(MaxShort)

NextTx ==
    \/ TxOpen
    \/ TxStatement
    \/ TxFail
    \/ TxCommit
    \/ TxExcept
    \/ BulkImportTx

SpecTx == Init /\ [][NextTx]_vars

\* The statements, run one by one, build what sync_session builds.
TxBuildsSyncSession ==
    pc = "commit" =>
        tx.db = sync_session(Connect(run.before), run.file, run.order, TRUE).db

\* While the transaction is open the committed contents are those it began
\* with: another connection reads nothing of what the statements wrote.
TxInvisible == pc # "idle" => db = run.before

\* The index holds one entry for each message row, under the row's id.
FtsMatches(d) ==
    /\ \A m \in d.messages :
            CopiesIn([rowid |-> m.id, content |-> m.content], d.fts) = 1
    /\ \A e \in BagToSet(d.fts) : \E m \in d.messages : m.id = e.rowid
    /\ BagCardinality(d.fts) = Cardinality(d.messages)

\* C5: after every statement of every import (message inserts, orphan
\* cleanup, the bulk importer's delete and re-insert) the rowids of the FTS
\* index are the ids of the messages table, one entry for each message row.
C5_FtsMatchesMessages == FtsMatches(db) /\ FtsMatches(tx.db)

\* A committed store from which a message row has been deleted while a row
\* inserted after it stays.
C5_DeletedRowWitness ==
    \E m \in db.messages : m.id > Cardinality(db.messages)

\* C9: when a step of an incremental sync raises after the transaction has
\* written, the committed contents of every table and of the FTS index are
\* those the sync began with, and the hook prints {"continue": true} and
\* exits 0.
C9_ErrorRollsBack ==
    [][(pc = "except" /\ tx.changes > 0)
       => (/\ db' = run.before
           /\ last'.stdout = <<Continue>>
           /\ last'.exit = 0)]_vars

\* A sync that failed after writing, over a store that held messages.
C9_FailedAfterWriteWitness ==
    /\ pc = "idle"
    /\ last.op = "sync" /\ last.path = "error" /\ last.wrote
    /\ db.messages # {}

\* The rows of every table, whatever the schema.
Rows(d) == [d EXCEPT !.schema = "any"]

\* The old schema as the claim words it.
OldSchema(d) ==
    "branches" \notin TablesOf(d.schema) /\ "sessions" \in TablesOf(d.schema)

\* C10: opening the store deletes the existing data if and only if the
\* branches table is absent and the sessions table present, and then the
\* database file is recreated empty with the current schema; any other store
\* keeps every row.
C10_OpenDeletesOnlyOldSchema ==
    [][(pc = "idle" /\ pc' = "project")
       => IF OldSchema(db) THEN db' = EmptyDb("v3")
          ELSE Rows(db') = Rows(db) /\ db'.schema = "v3"]_vars

\* An old-schema store that held messages has been opened and is empty.
C10_OldStoreDeletedWitness ==
    /\ pc = "project"
    /\ OldSchema(run.found) /\ run.found.messages # {}
    /\ db = EmptyDb("v3")

\* ------------------------------------------- properties of committed imports

ActiveBranches(d, s) ==
    {b \in d.branches : b.session_id = s.id /\ b.is_active = 1}

\* C1: after every committed import, incremental or bulk, every session row
\* of the store has exactly one branch row with is_active = 1.
C1_OneActiveBranch ==
    \A s \in db.sessions : Cardinality(ActiveBranches(db, s)) = 1

\* C2: at the commit of every import every message row is referenced by at
\* least one branch_messages row.
C2_EveryMessageInABranch ==
    \A m \in db.messages : \E bm \in db.branch_messages : bm.message_id = m.id

\* The messages, branches and branch membership of the store, up to row ids.
SessionState(d) ==
    [messages |-> {[uuid |-> m.uuid, parent_uuid |-> m.parent_uuid,
                    timestamp |-> m.timestamp, role |-> m.role,
                    content |-> m.content] : m \in d.messages},
     branches |-> {[leaf_uuid       |-> b.leaf_uuid,
                    fork_point_uuid |-> b.fork_point_uuid,
                    is_active       |-> b.is_active,
                    started_at      |-> b.started_at,
                    ended_at        |-> b.ended_at,
                    exchange_count  |-> b.exchange_count,
                    members |-> {m.uuid : m \in {x \in d.messages :
                                    [branch_id |-> b.id, message_id |-> x.id]
                                        \in d.branch_messages}}] :
                   b \in d.branches}]

\* The store a Stop hook builds from the file alone, on no database file.
FreshImport(f, order) ==
    stop_hook_main(EmptyDb("none"), f, TRUE, "session", "ok", order).db

\* C3: once a sync of the current version of the log has committed, whatever
\* versions were synced before, the session's messages, branches and branch
\* membership equal, up to row ids, those of an import of that version alone
\* into an empty store.
C3_SyncEqualsFreshImport ==
    (last.op = "sync" /\ last.path = "commit") =>
        \E order \in OrdersOf(file) :
            SessionState(db) = SessionState(FreshImport(file, order))

\* C4: a run that imports again the very file the previous import of its
\* kind read and stored (its hash is the hash that import saw) changes no
\* row of any table and reports the skip sentinel, on the bulk path and on
\* the incremental path alike.
C4_ReimportIsNoOp ==
    [][(/\ last.path \in {"commit", "skip"}
        /\ parse_jsonl_file(file) # <<>>
        /\ last'.op = last.op
        /\ last'.path # "crash"
        /\ file' = file)
       => (db' = db /\ last'.path = "skip")]_vars

\* C8, as far as whole runs interleave with a reader: what another connection
\* reads of a session the Stop hook has synced is never a session with zero
\* or two active branches, a branch without membership rows, or a message in
\* no branch.
C8_ReaderSeesWholeSession ==
    db.schema = "v3" =>
        /\ \A s \in db.sessions : Cardinality(ActiveBranches(db, s)) = 1
        /\ \A b \in db.branches : \E bm \in db.branch_messages : bm.branch_id = b.id
        /\ \A m \in db.messages : \E bm \in db.branch_messages : bm.message_id = m.id

\* --------------------------------------------- the session-start hook

\* memory_utils.get_project_key: cwd.replace("/", "-").replace(".", "-")
get_project_key(cwd) == Replace(Replace(cwd, "/", "-"), ".", "-")

\* DEFAULT_SETTINGS["max_context_sessions"]
MaxContextSessions == 2

\* LIMIT 20 of select_sessions' candidate query.
CandidateLimit == 20

\* The JSON object {}.
EmptyObject == <<>>

\* The rows of the candidate query: a session of the project that is not
\* the current one and no sub-agent's, with its active branch.
Candidates(d, project_id, current_session_id) ==
    {cand \in [s : d.sessions, b : d.branches] :
        /\ cand.b.session_id = cand.s.id /\ cand.b.is_active = 1
        /\ cand.s.project_id = project_id
        /\ cand.s.uuid # current_session_id
        /\ cand.s.parent_session_id = NullRef}

\* ORDER BY b.ended_at DESC LIMIT 20: the orders SQLite may return (rows
\* with equal ended_at come in any order).
CandidateOrders(d, project_id, current_session_id) ==
    {SubSeq(o, 1, Min({Len(o), CandidateLimit})) :
        o \in {q \in Orders(Candidates(d, project_id, current_session_id)) :
                \A i, j \in DOMAIN q : i < j => q[i].b.ended_at >= q[j].b.ended_at}}

\* The branch's messages through branch_messages, ORDER BY timestamp ASC.
RECURSIVE ByTimestamp(_)
ByTimestamp(rows) ==
    IF rows = {} THEN <<>>
    ELSE LET first == CHOOSE m \in rows : \A o \in rows : m.timestamp <= o.timestamp
         IN  <<[role |-> first.role, content |-> first.content,
                timestamp |-> first.timestamp]>> \o ByTimestamp(rows \ {first})

BranchMessages(d, branch_db_id) ==
    ByTimestamp({m \in d.messages :
                    [branch_id |-> branch_db_id, message_id |-> m.id]
                        \in d.branch_messages})

\* The loop of select_sessions over the candidates.
RECURSIVE SelectLoop(_, _, _, _)
SelectLoop(d, candidates, selected, max_sessions) ==
    IF candidates = <<>> THEN selected
    ELSE LET cand == Head(candidates)
             session_data == [uuid           |-> cand.s.uuid,
                              started_at     |-> cand.b.started_at,
                              ended_at       |-> cand.b.ended_at,
                              exchange_count |-> cand.b.exchange_count,
                              messages       |-> BranchMessages(d, cand.b.id)]
         IN  IF cand.b.exchange_count <= 1
             THEN SelectLoop(d, Tail(candidates), selected, max_sessions)
             ELSE IF cand.b.exchange_count = 2
             THEN IF Len(selected) + 1 >= max_sessions
                  THEN Append(selected, session_data)
                  ELSE SelectLoop(d, Tail(candidates),
                                  Append(selected, session_data), max_sessions)
             ELSE Append(selected, session_data)

\* A select_sessions that stops at the first session it includes.
select_sessions_first(d, project_key, candidates, max_sessions) ==
    SelectLoop(d, candidates, <<>>, 1)

\* memory-context.select_sessions; candidates is the candidate query's result.
select_sessions(d, project_key, candidates, max_sessions) ==
    IF ~\E p \in d.projects : p.key = project_key THEN <<>>
    ELSE SelectLoop(d, candidates, <<>>, max_sessions)

\* memory-context.build_context, as the blocks of its markdown: for each
\* session its time line and the messages of its branch ("" for no session).
build_context(sessions) ==
    IF sessions = <<>> THEN ""
    ELSE [i \in 1..Len(sessions) |->
            [timeline |-> <<sessions[i].started_at, sessions[i].ended_at>>,
             messages |-> sessions[i].messages]]

\* What the hook finds on stdin: a JSON object, text that is no JSON, JSON
\* that is no object; and the fields of the object (NULL: the key is absent).
StartEvents ==
    [stdin      : {"object"},
     source     : {NULL, "startup", "clear", "resume"},
     cwd        : {NULL, <<"/", "p">>, <<"/", "q">>},
     session_id : {NULL, "s1", "s2"}]
    \cup [stdin : {"not_json", "not_object"}, source : {NULL}, cwd : {NULL},
          session_id : {NULL}]

\* sqlite3.OperationalError in select_sessions: a table it reads is missing.
select_raises(d, project_key) ==
    \/ "projects" \notin TablesOf(d.schema)
    \/ /\ \E p \in d.projects : p.key = project_key
       /\ "branches" \notin TablesOf(d.schema)

\* memory-context.main: stdout and the exit status when the process ends.
session_start_main(d, ev, auto_inject_context, candidates) ==
    LET empty  == [stdout |-> <<EmptyObject>>, exit |-> 0, path |-> "empty"]
        source == IF ev.stdin # "object" \/ ev.source = NULL THEN "startup"
                  ELSE ev.source
    IN  IF ev.stdin = "not_object"
        THEN [stdout |-> <<>>, exit |-> 1, path |-> "crash"]
        ELSE IF source \notin {"startup", "clear"} THEN empty
        ELSE IF ~auto_inject_context THEN empty
        ELSE IF ev.cwd = NULL \/ ev.session_id = NULL THEN empty
        ELSE IF d.schema = "none" THEN empty
        ELSE IF select_raises(d, get_project_key(ev.cwd))
        THEN [empty EXCEPT !.path = "error"]
        ELSE LET sessions == select_sessions(d, get_project_key(ev.cwd),
                                             candidates, MaxContextSessions)
             IN  IF sessions = <<>> THEN empty
                 ELSE [stdout |-> <<[hookSpecificOutput |->
                                        [hookEventName |-> "SessionStart",
                                         additionalContext |->
                                            <<"## Previous Session Context",
                                              build_context(sessions)>>]]>>,
                       exit |-> 0, path |-> "context"]

\* ------------------------------------------------ the hooks and their inputs

\* Every log of up to n lines.
RECURSIVE LogsUpTo(_)
LogsUpTo(n) ==
    IF n = 0 THEN {<<>>}
    ELSE LET shorter == LogsUpTo(n - 1)
         IN  shorter \cup
             {g \in UNION {Appended(f) : f \in {h \in shorter : Len(h) = n - 1}} :
                Acyclic(g)}

\* A log, and the store before any run, after a Stop hook has synced the
\* log, or after the bulk importer has imported it.
InitHooks ==
    /\ file \in LogsUpTo(MaxShort)
    /\ db \in {EmptyDb("none"), import_main(EmptyDb("none"), file, "ok").db}
              \cup {FreshImport(file, order) : order \in OrdersOf(file)}
    /\ last = NoRun
    /\ pc = "idle"
    /\ tx = NoTx
    /\ run = NoJob

\* The host raises a Stop event: whatever the settings, stdin and the
\* projects directory hold, the hook runs to its end.
StopEvent ==
    \E sync_on_stop \in BOOLEAN, stdin \in StdinKinds, fs \in FsKinds :
      \E order \in OrdersOf(file) :
        \E r \in {stop_hook_main(db, file, sync_on_stop, stdin, fs, order)} :
            /\ db' = r.db
            /\ last' = [op |-> "sync", path |-> r.path, stdout |-> r.stdout,
                        exit |-> r.exit, wrote |-> r.changes > 0]
            /\ UNCHANGED <<file, pc, tx, run>>

\* The host starts a session: the session-start hook runs to its end.
SessionStart ==
    \E ev \in StartEvents, auto_inject_context \in BOOLEAN :
      \E candidates \in
            IF ev.cwd = NULL \/ select_raises(db, get_project_key(ev.cwd))
               \/ ~\E p \in db.projects : p.key = get_project_key(ev.cwd)
            THEN {<<>>}
            ELSE CandidateOrders(db,
                    (CHOOSE p \in db.projects : p.key = get_project_key(ev.cwd)).id,
                    ev.session_id) :
        \E r \in {session_start_main(db, ev, auto_inject_context, candidates)} :
            /\ last' = [op |-> "context", path |-> r.path, stdout |-> r.stdout,
                        exit |-> r.exit, wrote |-> FALSE, event |-> ev,
                        auto_inject_context |-> auto_inject_context]
            /\ UNCHANGED <<file, db, pc, tx, run>>

NextHooks ==
    \/ StopEvent
    \/ SessionStart

SpecHooks == InitHooks /\ [][NextHooks]_vars

\* C6: for every stdin and every failure (no projects directory, stdin that
\* is no JSON object, an unreadable log, a database error) the Stop hook
\* writes exactly one JSON object with "continue": true and exits 0.
C6_StopHookAlwaysContinues ==
    last.op = "sync" =>
        /\ last.exit = 0
        /\ Len(last.stdout) = 1
        /\ "continue" \in DOMAIN last.stdout[1]
        /\ last.stdout[1].continue = TRUE

\* C7: the session-start hook writes exactly one JSON object and exits 0 on
\* every run; the object is {} when source is neither startup nor clear,
\* when the project is unknown, when nothing is selected and on any error
\* (stdin that is no JSON object among them), and the hookSpecificOutput
\* envelope with hookEventName SessionStart otherwise.
C7_StartHookAlwaysAnswers ==
    last.op = "context" =>
        /\ last.exit = 0
        /\ Len(last.stdout) = 1
        /\ \/ DOMAIN last.stdout[1] = {}
           \/ /\ DOMAIN last.stdout[1] = {"hookSpecificOutput"}
              /\ last.stdout[1].hookSpecificOutput.hookEventName = "SessionStart"
        /\ (\/ last.event.stdin # "object"
            \/ last.event.source \notin {NULL, "startup", "clear"}
            \/ last.event.cwd = NULL
            \/ ~\E p \in db.projects : p.key = get_project_key(last.event.cwd)
            \/ last.path = "error")
           => DOMAIN last.stdout[1] = {}

\* ------------------------------------------- the selection rule on its own

\* Candidates of the project, and the largest max_context_sessions a user
\* configures.
MaxCandidates == 3

MaxSetting == 3

\* The exchange counts of the candidates' active branches.
ExchangeCounts == {0, 1, 2, 5}

\* The uuid of the i-th stored session.
StoredUuid(i) == <<"stored", i>>

\* A store of one project whose sessions, newest first, have active branches
\* with the given exchange counts.
StoreOfCounts(counts) ==
    [EmptyDb("v3") EXCEPT
        !.projects = {[id |-> 1, key |-> ProjectKey, path |-> project_path_of(ProjectKey)]},
        !.sessions = {[id |-> i, uuid |-> StoredUuid(i), project_id |-> 1,
                       parent_session_id |-> NullRef] : i \in 1..Len(counts)},
        !.branches = {[id |-> i, session_id |-> i, leaf_uuid |-> "a",
                       fork_point_uuid |-> NULL, is_active |-> 1,
                       started_at |-> 1, ended_at |-> Len(counts) + 1 - i,
                       exchange_count |-> counts[i]] : i \in 1..Len(counts)}]

CountLists ==
    UNION {[1..n -> ExchangeCounts] : n \in 0..MaxCandidates}

InitSelect ==
    /\ \E counts \in CountLists, max_sessions \in 0..MaxSetting :
        /\ db = StoreOfCounts(counts)
        /\ run = [counts |-> counts, max_sessions |-> max_sessions]
    /\ file = <<>>
    /\ last = NoRun
    /\ pc = "idle"
    /\ tx = NoTx

\* select_sessions runs for a new session of the project.
Select ==
    /\ last.op = "none"
    /\ \E candidates \in CandidateOrders(db, 1, "s2") :
        last' = [op |-> "select",
                 selected |-> select_sessions(db, ProjectKey, candidates,
                                              run.max_sessions)]
    /\ UNCHANGED <<file, db, pc, tx, run>>

SpecSelect == InitSelect /\ [][Select]_vars

\* The rule as the documentation words it: of the candidates with more than
\* one exchange, in order, those up to and including the first that has
\* more than two exchanges or that fills the configured number.
RuleOf(counts, max_sessions) ==
    LET kept  == SelectSeq([i \in 1..Len(counts) |-> i], LAMBDA i : counts[i] > 1)
        stops == {j \in 1..Len(kept) : counts[kept[j]] > 2 \/ j >= max_sessions}
    IN  IF stops = {} THEN kept ELSE SubSeq(kept, 1, Min(stops))

\* C11: select_sessions returns exactly the candidates the scan rule keeps,
\* in order: a candidate with at most one exchange is skipped, one with two
\* is included and the scan goes on unless the configured number is reached,
\* one with more than two is included and ends the scan.
C11_SelectFollowsRule ==
    last.op = "select" =>
        [j \in 1..Len(last.selected) |-> last.selected[j].uuid]
            = [j \in 1..Len(RuleOf(run.counts, run.max_sessions)) |->
                    StoredUuid(RuleOf(run.counts, run.max_sessions)[j])]

\* Counts [1, 2, 5] and a maximum of 2: the 2 and then the 5 are selected.
C11_TwoThenFiveWitness ==
    /\ last.op = "select"
    /\ run.counts = <<1, 2, 5>> /\ run.max_sessions = 2
    /\ [j \in 1..Len(last.selected) |-> last.selected[j].exchange_count] = <<2, 5>>

\* C12: select_sessions never returns more sessions than max_context_sessions,
\* whatever the candidates and the configured value (0 and 1 included).
C12_AtMostMaxSessions ==
    last.op = "select" => Len(last.selected) <= run.max_sessions

\* ------------------------------------------- the branch detector on its own

\* Lines of the log the detector is run on.
MaxGraph == 4

InitDetect ==
    /\ file \in LogsUpTo(MaxGraph)
    /\ db = EmptyDb("none")
    /\ last = NoRun
    /\ pc = "idle"
    /\ tx = NoTx
    /\ run = NoJob

\* The Stop hook syncs the log into no database file: the branches
\* find_all_branches returns on the log's graph stream, and the store.
Detect ==
    /\ last.op = "none"
    /\ \E order \in OrdersOf(file) :
        /\ last' = [op |-> "detect",
                    branches |-> find_all_branches(parse_all_with_uuids(file), order)]
        /\ db' = FreshImport(file, order)
    /\ UNCHANGED <<file, pc, tx, run>>

SpecDetect == InitDetect /\ [][Detect]_vars

\* The parent-pointer tree of the graph stream, as the documentation defines
\* it.  A record is named by its uuid; its parent pointer is the parentUuid of
\* the line that carries the uuid last.
Graph == parse_all_with_uuids(file)

Nodes == {Graph[i].uuid : i \in 1..Len(Graph)}

Record(u) == Graph[Max({i \in 1..Len(Graph) : Graph[i].uuid = u})]

Parent(u) == IF u \in Nodes THEN Record(u).parentUuid ELSE NULL

\* u and everything reached from it by following parent pointers: the least
\* set that holds u and the parent of each of its elements.
AncestorsOrSelf(u) ==
    LET all    == Nodes \cup {Graph[i].parentUuid : i \in 1..Len(Graph)} \cup {u}
        closed == {S \in SUBSET (all \ {NULL}) :
                      u \in S /\ \A v \in S : Parent(v) = NULL \/ Parent(v) \in S}
    IN  CHOOSE S \in closed : \A T \in closed : S \subseteq T

\* The records at or below k.
Subtree(k) == {v \in Nodes : k \in AncestorsOrSelf(v)}

TopTimestamp == Max({Graph[i].timestamp : i \in 1..Len(Graph)})

\* The records of the active path: the latest record and its ancestors.
ActivePath ==
    IF Graph = <<>> THEN {}
    ELSE AncestorsOrSelf(
            Graph[CHOOSE i \in 1..Len(Graph) : Graph[i].timestamp = TopTimestamp].uuid)

\* The latest record of a set of records.
LatestIn(S) ==
    CHOOSE v \in S : \A w \in S : Record(w).timestamp <= Record(v).timestamp

\* The rewind forks: an active-path node u and a child k of it that is off
\* the active path and has a user record at or below it.
RewindForks ==
    {uk \in ActivePath \X Nodes :
        /\ Parent(uk[2]) = uk[1]
        /\ uk[2] \notin ActivePath
        /\ \E v \in Subtree(uk[2]) : Record(v).type = "user"}

\* The log carries no uuid on two lines.
UniqueUuids == Cardinality(Nodes) = Len(Graph)

\* C14: the first branch the detector returns is the active branch and the
\* only one flagged active; its leaf is a record with the greatest timestamp
\* of the graph stream, its uuid set is that record with all its ancestors,
\* and its fork point is NULL.
C14_ActiveBranchFirst ==
    (last.op = "detect" /\ Graph # <<>>) =>
        /\ Len(last.branches) >= 1
        /\ last.branches[1].is_active
        /\ \A i \in 2..Len(last.branches) : ~last.branches[i].is_active
        /\ last.branches[1].leaf_uuid \in Nodes
        /\ Record(last.branches[1].leaf_uuid).timestamp = TopTimestamp
        /\ last.branches[1].uuids = AncestorsOrSelf(last.branches[1].leaf_uuid)
        /\ last.branches[1].fork_point_uuid = NULL

\* A log with an abandoned branch whose active branch is longer than its leaf.
C14_ForkedLogWitness ==
    /\ last.op = "detect"
    /\ Len(last.branches) >= 2
    /\ Cardinality(last.branches[1].uuids) >= 2
    /\ last.branches[1].is_active

\* The two branches of a log with the single rewind fork (u, k).
SingleForkBranches(u, k) ==
    /\ Len(last.branches) = 2
    /\ last.branches[1].is_active
    /\ last.branches[2] = [leaf_uuid       |-> LatestIn(Subtree(k)),
                           uuids           |-> AncestorsOrSelf(u) \cup Subtree(k),
                           is_active       |-> FALSE,
                           fork_point_uuid |-> u]
    /\ last.branches[1].uuids \cap last.branches[2].uuids = AncestorsOrSelf(u)
    /\ AncestorsOrSelf(u) # {}

\* C15: a log whose tree has a single rewind fork (u, k) yields exactly two
\* branches, the active one and an abandoned one with fork point u, the
\* latest record of subtree(k) as its leaf and ancestors(u) with subtree(k) as
\* its uuid set; the two uuid sets share exactly u and its ancestors.
C15_SingleForkTwoBranches ==
    (last.op = "detect" /\ Cardinality(RewindForks) = 1) =>
        \A uk \in RewindForks : SingleForkBranches(uk[1], uk[2])

\* The same on the logs that carry every uuid on one line only.
SingleForkOnUniqueUuids ==
    (last.op = "detect" /\ Cardinality(RewindForks) = 1 /\ UniqueUuids) =>
        \A uk \in RewindForks : SingleForkBranches(uk[1], uk[2])

\* The non-active children of the active-path nodes that have more than one
\* child.
OffPathChildren ==
    {uk \in ActivePath \X Nodes :
        /\ Parent(uk[2]) = uk[1]
        /\ uk[2] \notin ActivePath
        /\ Cardinality({k \in Nodes : Parent(k) = uk[1]}) > 1}

\* An abandoned branch was emitted for the child k of u.
EmittedFor(u, k) ==
    \E i \in 2..Len(last.branches) :
        last.branches[i].fork_point_uuid = u /\ k \in last.branches[i].uuids

\* What C16 says of each such child.
UserRecordDecides(u, k) ==
    IF \E v \in Subtree(k) : Record(v).type = "user"
    THEN EmittedFor(u, k)
    ELSE /\ ~EmittedFor(u, k)
         /\ \A b \in db.branches : b.leaf_uuid \notin Subtree(k)
         /\ \A m \in db.messages : m.uuid \notin Subtree(k)

\* C16: a non-active child k of an active-path node with more than one child
\* yields an abandoned branch if and only if a user record is at or below k;
\* for a subtree without a user record no branch is emitted and the import
\* leaves no branch row and no message row of it.
C16_UserRecordDecides ==
    last.op = "detect" =>
        \A uk \in OffPathChildren : UserRecordDecides(uk[1], uk[2])

\* The same on the logs that carry every uuid on one line only.
UserRecordDecidesOnUniqueUuids ==
    (last.op = "detect" /\ UniqueUuids) =>
        \A uk \in OffPathChildren : UserRecordDecides(uk[1], uk[2])

\* C17: every branch the detector returns is one root-to-leaf path: any two
\* of its uuids are ancestor and descendant, and its leaf is the last node
\* of the path.
C17_BranchIsOnePath ==
    last.op = "detect" =>
        \A i \in 1..Len(last.branches) :
            LET b == last.branches[i]
            IN  /\ \A v, w \in b.uuids :
                        v \in AncestorsOrSelf(w) \/ w \in AncestorsOrSelf(v)
                /\ \A v \in b.uuids : v \in AncestorsOrSelf(b.leaf_uuid)

\* The leaves of the branches the detector returned are pairwise distinct.
DistinctLeaves ==
    \A i, j \in 1..Len(last.branches) :
        i # j => last.branches[i].leaf_uuid # last.branches[j].leaf_uuid

\* C29: for every log, those with a uuid on more than one line included, the
\* branches find_all_branches returns have pairwise distinct leaf_uuid, so
\* sync_session never inserts two branch rows with one (session_id,
\* leaf_uuid) and never fails on that constraint.
C29_DistinctLeavesNoConflict ==
    last.op = "detect" =>
        /\ DistinctLeaves
        /\ \A order \in OrdersOf(file) :
                stop_hook_main(EmptyDb("none"), file, TRUE, "session", "ok",
                               order).path # "error"

\* The same on the logs that carry every uuid on one line only.
DistinctLeavesOnUniqueUuids ==
    (last.op = "detect" /\ UniqueUuids) =>
        /\ DistinctLeaves
        /\ \A order \in OrdersOf(file) :
                stop_hook_main(EmptyDb("none"), file, TRUE, "session", "ok",
                               order).path # "error"

\* ------------------------------------------------ the parser on the host's log

\* The record types the host writes beside the two message types.
NoiseTypes == {"progress", "file-history-snapshot", "queue-operation"}

\* The (type, isMeta) pairs of the host's lines.
HostKinds == ({"user", "assistant"} \cup NoiseTypes) \X BOOLEAN

\* A line the host appends: of any type, with or without a uuid.
HostAppended(f) ==
    {Append(f, [uuid |-> u, parentUuid |-> p, timestamp |-> NextTs(f),
                type |-> k[1], content |-> "x", isMeta |-> k[2]]) :
        u \in (UuidChoices(f) \ {NULL}) \cup {NULL},
        p \in (Used(f) \ {NULL}) \cup {NULL, Elsewhere},
        k \in HostKinds}

\* Every host log of up to n lines.
RECURSIVE HostLogsUpTo(_)
HostLogsUpTo(n) ==
    IF n = 0 THEN {<<>>}
    ELSE LET shorter == HostLogsUpTo(n - 1)
         IN  shorter \cup
             {g \in UNION {HostAppended(f) : f \in {h \in shorter : Len(h) = n - 1}} :
                Acyclic(parse_all_with_uuids(g))}

InitParse ==
    /\ file \in HostLogsUpTo(MaxShort)
    /\ db = EmptyDb("none")
    /\ last = NoRun
    /\ pc = "idle"
    /\ tx = NoTx
    /\ run = NoJob

\* sync_session's reads of the log: the message stream, the graph stream
\* and the branches found on the graph stream.
Parse ==
    /\ last.op = "none"
    /\ \E order \in OrdersOf(file) :
        last' = [op |-> "parse",
                 messages |-> parse_jsonl_file(file),
                 graph    |-> parse_all_with_uuids(file),
                 branches |-> find_all_branches(parse_all_with_uuids(file), order)]
    /\ UNCHANGED <<file, db, pc, tx, run>>

SpecParse == InitParse /\ [][Parse]_vars

Discarded(r) == r.type \in NoiseTypes \/ r.isMeta

\* C18: the parser discards the records of type progress,
\* file-history-snapshot and queue-operation and the records with a truthy
\* isMeta in both of its yielding modes: no such record is in the message
\* stream, none is in the graph stream, and none is the leaf of the active
\* branch.
C18_NoiseDiscardedInBothModes ==
    last.op = "parse" =>
        /\ \A i \in 1..Len(last.messages) : ~Discarded(last.messages[i])
        /\ \A i \in 1..Len(last.graph) : ~Discarded(last.graph[i])
        /\ \A i \in 1..Len(last.branches) :
              last.branches[i].is_active =>
                  \A j \in 1..Len(file) :
                      file[j].uuid = last.branches[i].leaf_uuid => ~Discarded(file[j])

\* The message stream alone holds no discarded record.
MessageStreamDiscardsNoise ==
    last.op = "parse" =>
        \A i \in 1..Len(last.messages) : ~Discarded(last.messages[i])

\* ------------------------------------------- a session and its sub-agent

\* The id of the main session's sub-agent; its log is
\* <project>/<session>/subagents/agent-<id>.jsonl.
AgentId == "g1"

AgentLog == LogName(TRUE, AgentId)

\* get_session_file's None.
NoLog == LogName(FALSE, NULL)

\* sync_current.get_session_file over the projects directory with the one
\* project: <session_id>.jsonl if there is one, else a log in a subagents
\* directory whose name holds the session id, else None.
get_session_file(session_id) ==
    IF session_id = MainLog.id THEN MainLog
    ELSE IF session_id = AgentLog.id THEN AgentLog
    ELSE NoLog

\* import_conversations.import_project over the project directory: the main
\* session's log, then the logs of its subagents directory with the main
\* session's id (-1 where the main log was skipped) as the parent.
import_project(c, log, agent_log) ==
    LET main == import_session(c, MainLog, log, ProjectId(c, ProjectKey), NullRef)
        session_id == IF main.skipped THEN -1 ELSE SessionId(main.c, SessionUuid)
    IN  import_session(main.c, AgentLog, agent_log,
                       ProjectId(c, ProjectKey), Ref(session_id)).c

\* import_conversations.main in import mode over that directory.
import_main_project(d, log, agent_log) ==
    IF init_database_raises(d) THEN d
    ELSE import_project(import_upsert_project(Connect(init_database(d)), ProjectKey),
                        log, agent_log).db

\* The main session's log and its sub-agent's log, as the host wrote them.
InitAgents ==
    /\ file \in LogsUpTo(MaxShort)
    /\ run \in [agent_file : LogsUpTo(MaxShort)]
    /\ db = EmptyDb("none")
    /\ last = NoRun
    /\ pc = "idle"
    /\ tx = NoTx

\* A Stop event with the id of the main session, of the sub-agent, or of a
\* session with no log.
StopOf ==
    \E session_id \in {SessionUuid, AgentId, "s2"} :
      \E name \in {get_session_file(session_id)} :
      \E f \in {IF name = AgentLog THEN run.agent_file ELSE file} :
      \E order \in OrdersOf(f) :
        \E r \in {stop_hook_main_file(db, name, f, TRUE, "session",
                                      IF name = NoLog THEN "no_file" ELSE "ok",
                                      order)} :
            /\ db' = r.db
            /\ last' = [op |-> "sync", session_id |-> session_id]
            /\ UNCHANGED <<file, pc, tx, run>>

\* The bulk importer runs over the project directory.
BulkImportProject ==
    /\ db' = import_main_project(db, file, run.agent_file)
    /\ last' = [op |-> "bulk"]
    /\ UNCHANGED <<file, pc, tx, run>>

\* The host starts a session in the project: the sessions the hook selects.
StartIn ==
    \E session_id \in {SessionUuid, AgentId, "s2"} :
      \E candidates \in
            IF select_raises(db, ProjectKey)
               \/ ~\E p \in db.projects : p.key = ProjectKey
            THEN {<<>>}
            ELSE CandidateOrders(db,
                    (CHOOSE p \in db.projects : p.key = ProjectKey).id, session_id) :
        /\ last' = [op |-> "context", session_id |-> session_id,
                    selected |->
                        IF db.schema = "none" \/ select_raises(db, ProjectKey)
                        THEN <<>>
                        ELSE select_sessions(db, ProjectKey, candidates,
                                             MaxContextSessions)]
        /\ UNCHANGED <<file, db, pc, tx, run>>

NextAgents ==
    \/ StopOf
    \/ BulkImportProject
    \/ StartIn

SpecAgents == InitAgents /\ [][NextAgents]_vars

\* C13: no session selected for context injection is the current session,
\* and none was imported from a sub-agent log, whichever of the Stop hook and
\* the bulk importer stored it.
C13_NoCurrentNoSubAgent ==
    last.op = "context" =>
        \A i \in 1..Len(last.selected) :
            /\ last.selected[i].uuid # last.session_id
            /\ last.selected[i].uuid # AgentId

\* The current session is never selected.
CurrentSessionNotSelected ==
    last.op = "context" =>
        \A i \in 1..Len(last.selected) : last.selected[i].uuid # last.session_id

\* ------------------------------------------- the session row over re-imports

\* What a record carries as gitBranch and as cwd (NULL: the key is absent).
GitBranches == {NULL, "main"}

Cwds == {NULL, "/p"}

\* A record with the keys the host gave it.
WithMeta(r, git_branch, cwd) ==
    LET keys == DOMAIN r \cup (IF git_branch # NULL THEN {"gitBranch"} ELSE {})
                         \cup (IF cwd # NULL THEN {"cwd"} ELSE {})
    IN  [k \in keys |-> IF k = "gitBranch" THEN git_branch
                        ELSE IF k = "cwd" THEN cwd ELSE r[k]]

\* The log with one user record appended to its last one.
MetaAppended(f, branches, cwds) ==
    {Append(f, WithMeta([uuid |-> UuidNames[Len(f) + 1],
                         parentUuid |-> IF f = <<>> THEN NULL ELSE f[Len(f)].uuid,
                         timestamp |-> NextTs(f), type |-> "user",
                         content |-> "x", isMeta |-> FALSE], g, w)) :
        g \in branches, w \in cwds}

\* The log as the next run may find it: as it was, with a record appended,
\* or with its last line removed.
MetaVersions(f) ==
    {f} \cup Removed(f)
        \cup (IF Len(f) < MaxShort THEN MetaAppended(f, GitBranches, Cwds) ELSE {})

\* The same for the sub-agent's log, whose records carry neither key.
AgentVersions(f) ==
    {f} \cup Removed(f)
        \cup (IF Len(f) < MaxShort THEN MetaAppended(f, {NULL}, {NULL}) ELSE {})

InitMeta ==
    /\ file = <<>>
    /\ run = [agent_file |-> <<>>]
    /\ db = EmptyDb("none")
    /\ last = NoRun
    /\ pc = "idle"
    /\ tx = NoTx

\* A Stop event of the main session or of its sub-agent, on the next version
\* of that session's log.
StopOnVersion ==
    \E name \in {MainLog, AgentLog} :
      \E f \in IF name = AgentLog THEN AgentVersions(run.agent_file)
                                   ELSE MetaVersions(file) :
        \E r \in {stop_hook_main_file(db, name, f, TRUE, "session", "ok", <<>>)} :
            /\ IdsWithin(r.db)
            /\ db' = r.db
            /\ file' = IF name = MainLog THEN f ELSE file
            /\ run' = IF name = AgentLog THEN [agent_file |-> f] ELSE run
            /\ last' = [op |-> "sync", migrated |-> migrate_db(db)]
            /\ UNCHANGED <<pc, tx>>

\* The bulk importer runs over the project directory, on the next versions
\* of the two logs.
BulkOnVersion ==
    \E f \in MetaVersions(file), g \in AgentVersions(run.agent_file) :
        \E d \in {import_main_project(db, f, g)} :
            /\ IdsWithin(d)
            /\ db' = d
            /\ file' = f
            /\ run' = [agent_file |-> g]
            /\ last' = [op |-> "bulk", migrated |-> FALSE]
            /\ UNCHANGED <<pc, tx>>

NextMeta ==
    \/ StopOnVersion
    \/ BulkOnVersion

SpecMeta == InitMeta /\ [][NextMeta]_vars

\* The stored value of a column is kept where the row had one.
KeepsStored(old, new, column) ==
    Get(old, column) # NULL => Get(new, column) # NULL

KeepsRowValues ==
    \A old \in db.sessions : \A new \in db'.sessions :
        old.uuid = new.uuid =>
            /\ KeepsStored(old, new, "git_branch")
            /\ KeepsStored(old, new, "cwd")
            /\ (old.parent_session_id # NullRef => new.parent_session_id # NullRef)

OneRowPerUuid(d) ==
    \A s, t \in d.sessions : s.uuid = t.uuid => s = t

\* C19: after any sequence of imports there is exactly one session row per
\* session uuid, and an import of a session never replaces a stored non-NULL
\* git_branch, cwd or parent-session reference with NULL, by the Stop hook
\* and by the bulk importer alike (a run that recreates the store replaces
\* no row).
C19_OneRowKeepsValues ==
    [][OneRowPerUuid(db') /\ (~last'.migrated => KeepsRowValues)]_vars

\* The same for the runs of the Stop hook alone.
SyncKeepsRowValues ==
    [][last'.op = "sync" =>
          OneRowPerUuid(db') /\ (~last'.migrated => KeepsRowValues)]_vars

\* The bulk importer keeps the parent-session reference and the one row.
BulkKeepsParent ==
    [][last'.op = "bulk" =>
          /\ OneRowPerUuid(db')
          /\ \A old \in db.sessions : \A new \in db'.sessions :
                old.uuid = new.uuid =>
                    (old.parent_session_id # NullRef =>
                        new.parent_session_id # NullRef)]_vars

\* --------------------------------------------- two overlapping Stop hooks

\* The two invocations of sync_current.py.
Procs == {1, 2}

Other(p) == CHOOSE q \in Procs : q # p

\* The log of the session an invocation syncs.
LogOf(p) == file[run[p].name.id]

\* The stores the two invocations may find: no database file, the store the
\* bulk importer made of the first session's log, the store an earlier Stop
\* hook made of it.
FoundStores(f) ==
    {EmptyDb("none"), import_main(EmptyDb("none"), f, "ok").db}
        \cup {FreshImport(f, order) : order \in OrdersOf(f)}

\* Two Stop events are raised: both for the session s1, or one for s1 and
\* one for s2.  last.inode names the file the database path leads to,
\* last.lock the invocation that holds the write lock on that file.
InitOverlap ==
    /\ file \in [{"s1", "s2"} -> LogsUpTo(MaxShort)]
    /\ db \in FoundStores(file["s1"])
    /\ run \in {r \in [Procs -> [name : {LogName(FALSE, "s1"), LogName(FALSE, "s2")},
                                 order : UNION {OrdersOf(file[u]) : u \in {"s1", "s2"}}]] :
                    /\ r[1].name.id = "s1"
                    /\ \A q \in Procs : r[q].order \in OrdersOf(file[r[q].name.id])}
    /\ pc = [q \in Procs |-> "idle"]
    /\ tx = [q \in Procs |-> [c |-> Connect(db), inode |-> 0]]
    /\ last = [op |-> "overlap", inode |-> 0, lock |-> 0, found |-> db,
               ended |-> [q \in Procs |-> "running"]]

\* get_db_connection up to migrate_db's test of the schema: on an old schema
\* the connection is closed; otherwise SCHEMA is applied and the connection
\* is the one sync_session gets.
OvOpen(p) ==
    /\ pc[p] = "idle"
    /\ IF migrate_db(db)
       THEN /\ pc' = [pc EXCEPT ![p] = "unlink"]
            /\ UNCHANGED <<db, tx>>
       ELSE /\ db' = [db EXCEPT !.schema = "v3"]
            /\ tx' = [tx EXCEPT ![p] = [c |-> Connect(db'), inode |-> last.inode]]
            /\ pc' = [pc EXCEPT ![p] = "begin"]
    /\ UNCHANGED <<file, run, last>>

\* migrate_db on an old schema: db_path.unlink(), and a new file with SCHEMA
\* at the path.  A connection another invocation holds stays on the file
\* that was unlinked, and so does its lock.
OvRecreate(p) ==
    /\ pc[p] = "unlink"
    /\ db' = EmptyDb("v3")
    /\ last' = [last EXCEPT !.inode = @ + 1, !.lock = 0]
    /\ pc' = [pc EXCEPT ![p] = "reconnect"]
    /\ UNCHANGED <<file, run, tx>>

\* get_db_connection reconnects after a migration.
OvReconnect(p) ==
    /\ pc[p] = "reconnect"
    /\ tx' = [tx EXCEPT ![p] = [c |-> Connect(db), inode |-> last.inode]]
    /\ pc' = [pc EXCEPT ![p] = "begin"]
    /\ UNCHANGED <<file, db, run, last>>

OnPath(p) == tx[p].inode = last.inode

\* sync_session: its first statement takes the write lock of the file the
\* connection is on, and its statements run on that file's contents.
OvSync(p) ==
    /\ pc[p] = "begin"
    /\ OnPath(p) => last.lock = 0
    /\ \E c \in {sync_session_file(Connect(IF OnPath(p) THEN db ELSE tx[p].c.db),
                                   run[p].name, LogOf(p), run[p].order, TRUE)} :
        /\ tx' = [tx EXCEPT ![p].c = c]
        /\ pc' = [pc EXCEPT ![p] = IF c.err THEN "except" ELSE "commit"]
    /\ last' = IF OnPath(p) THEN [last EXCEPT !.lock = p] ELSE last
    /\ UNCHANGED <<file, db, run>>

\* The other invocation holds the write lock for longer than the
\* connection's timeout: the first statement raises "database is locked".
OvLocked(p) ==
    /\ pc[p] = "begin"
    /\ OnPath(p) /\ last.lock = Other(p)
    /\ pc' = [pc EXCEPT ![p] = "except"]
    /\ UNCHANGED <<file, db, run, tx, last>>

\* conn.commit() and the hook's output.
OvCommit(p) ==
    /\ pc[p] = "commit"
    /\ db' = IF OnPath(p) THEN commit(db, tx[p].c) ELSE db
    /\ last' = [last EXCEPT !.lock = IF OnPath(p) THEN 0 ELSE @,
                            !.ended[p] = "commit"]
    /\ pc' = [pc EXCEPT ![p] = "done"]
    /\ UNCHANGED <<file, run, tx>>

\* main's except branch: no commit, the hook's output.
OvExcept(p) ==
    /\ pc[p] = "except"
    /\ last' = [last EXCEPT !.lock = IF OnPath(p) /\ @ = p THEN 0 ELSE @,
                            !.ended[p] = "error"]
    /\ pc' = [pc EXCEPT ![p] = "done"]
    /\ UNCHANGED <<file, db, run, tx>>

NextOverlap ==
    \E p \in Procs :
        \/ OvOpen(p)
        \/ OvRecreate(p)
        \/ OvReconnect(p)
        \/ OvSync(p)
        \/ OvLocked(p)
        \/ OvCommit(p)
        \/ OvExcept(p)

SpecOverlap == InitOverlap /\ [][NextOverlap]_vars

\* The store after invocation p has run alone, from start to end, on d.
AloneOn(d, p) ==
    stop_hook_main_file(d, run[p].name, LogOf(p), TRUE, "session", "ok",
                        run[p].order).db

\* The stores the two invocations leave when one runs after the other.
SerialStores ==
    {AloneOn(AloneOn(last.found, p), Other(p)) : p \in Procs}

BothCommitted == \A p \in Procs : last.ended[p] = "commit"

\* C20: two overlapping runs of the Stop hook on one store, for the same
\* session or for two sessions, serialize: the committed store they leave is
\* the store of the two runs one after the other in some order, and every
\* session in it has one active branch and every message is in a branch.
C20_OverlapSerializes ==
    BothCommitted =>
        /\ db \in SerialStores
        /\ \A s \in db.sessions : Cardinality(ActiveBranches(db, s)) = 1
        /\ \A m \in db.messages : \E bm \in db.branch_messages : bm.message_id = m.id

\* The same on a store that needs no migration.
SerializesOnCurrentSchema ==
    (BothCommitted /\ ~migrate_db(last.found)) => db \in SerialStores

\* ------------------------------------ the bulk importer's walk of a project

\* The logs of the project directory: s1.jsonl, s2.jsonl and
\* s1/subagents/agent-g1.jsonl.
SecondLog == LogName(FALSE, "s2")

WalkLogs == {MainLog, SecondLog, AgentLog}

\* The orders project_dir.glob("*.jsonl") may yield the main logs in.
GlobOrders == {<<MainLog, SecondLog>>, <<SecondLog, MainLog>>}

\* import_session on a log that may be unreadable: get_file_hash's open()
\* raises, and nothing catches it.
import_session_of(r, name, logs, unreadable, parent_session_id) ==
    IF r.raised THEN r
    ELSE IF name \in unreadable THEN [r EXCEPT !.raised = TRUE]
    ELSE LET res == import_session(r.c, name, logs[name.id],
                                   ProjectId(r.c, ProjectKey), parent_session_id)
         IN  [c |-> res.c, raised |-> FALSE,
              session_id |-> IF res.skipped THEN -1
                             ELSE SessionId(res.c, session_uuid_of(name)),
              imported |-> IF res.skipped THEN r.imported
                           ELSE r.imported \cup {name}]

\* import_project's loop over the main logs in the order of the glob; the
\* logs of <session>/subagents follow their session's log, with the id that
\* import_session returned for it as the parent.
RECURSIVE import_files(_, _, _, _)
import_files(r, names, logs, unreadable) ==
    IF names = <<>> THEN r
    ELSE LET main == import_session_of(r, Head(names), logs, unreadable, NullRef)
             subs == IF Head(names) = MainLog
                     THEN import_session_of(main, AgentLog, logs, unreadable,
                                            Ref(main.session_id))
                     ELSE main
         IN  import_files(subs, Tail(names), logs, unreadable)

\* import_conversations.main in import mode over the directory: the database
\* file when the process ends (conn.commit() is its last statement), whether
\* it ended in a traceback, and the logs whose import_session ran to its end.
import_walk(d, logs, unreadable, order) ==
    IF init_database_raises(d)
    THEN [db |-> d, raised |-> TRUE, imported |-> {}]
    ELSE LET c0 == import_upsert_project(Connect(init_database(d)), ProjectKey)
             r  == import_files([c |-> c0, raised |-> FALSE, session_id |-> -1,
                                 imported |-> {}],
                                order, logs, unreadable)
         IN  [db |-> IF r.raised THEN init_database(d) ELSE r.c.db,
              raised |-> r.raised, imported |-> r.imported]

\* The three logs, not yet written, and no database file.
\* Lines of a log of the walked project.
MaxWalk == 1

\* A log of the project as the next walk may find it.
WalkVersions(f) == {g \in AgentVersions(f) : Len(g) <= MaxWalk}

InitWalk ==
    /\ file = [u \in {n.id : n \in WalkLogs} |-> <<>>]
    /\ db = EmptyDb("none")
    /\ last = NoRun
    /\ pc = "idle"
    /\ tx = NoTx
    /\ run = NoJob

\* The bulk importer runs over the next versions of the logs, of which one
\* may be unreadable.
Walk ==
    \E logs \in {l \in [DOMAIN file -> UNION {WalkVersions(file[u]) : u \in DOMAIN file}] :
                    \A u \in DOMAIN file : l[u] \in WalkVersions(file[u])} :
      \E unreadable \in {{}} \cup {{n} : n \in WalkLogs}, order \in GlobOrders :
        \E r \in {import_walk(db, logs, unreadable, order)} :
            /\ IdsWithin(r.db)
            /\ db' = r.db
            /\ file' = logs
            /\ last' = [op |-> "walk", raised |-> r.raised, imported |-> r.imported,
                        unreadable |-> unreadable, before |-> db]
            /\ UNCHANGED <<pc, tx, run>>

SpecWalk == InitWalk /\ [][Walk]_vars

\* The session rows of a store, by uuid.
StoredSession(d, name) == {x \in d.sessions : x.uuid = session_uuid_of(name)}

\* C21: when a log cannot be read during a bulk import the importer skips
\* it and goes on with the other logs, and their imports are committed: the
\* process ends without a traceback and each log whose import ran has its
\* session row in the database file.
C21_UnreadableLogSkipped ==
    (last.op = "walk" /\ last.unreadable # {}) =>
        /\ ~last.raised
        /\ \A n \in last.imported : StoredSession(db, n) # {}

\* A walk in which every log can be read commits the imports that ran.
ReadableWalkCommits ==
    (last.op = "walk" /\ last.unreadable = {}) =>
        /\ ~last.raised
        /\ \A n \in last.imported : StoredSession(db, n) # {}

\* C22: after any sequence of bulk imports every session row's
\* parent_session_id is NULL or the id of a session row of the store; the
\* row of a sub-agent log imported in a walk that did not import its parent
\* session holds NULL.
C22_ParentIsNullOrARow ==
    last.op = "walk" =>
        /\ \A x \in db.sessions :
              \/ x.parent_session_id = NullRef
              \/ \E y \in db.sessions : x.parent_session_id = Ref(y.id)
        /\ (/\ ~last.raised
            /\ AgentLog \in last.imported /\ MainLog \notin last.imported
            /\ StoredSession(last.before, AgentLog) = {})
              => \A x \in StoredSession(db, AgentLog) : x.parent_session_id = NullRef

\* ----------------------------------------------- user turns and their count

\* The (type, content) pairs of the host's message records: a user turn, a
\* tool result, a slash command with no text of its own, an assistant turn.
TurnKinds == {<<"user", "x">>, <<"user", ToolResult>>, <<"user", CommandOnly>>,
              <<"assistant", "x">>}

\* The log with one record of a new uuid appended under a record of the log
\* (or under none).
TurnAppended(f) ==
    {Append(f, [uuid |-> UuidNames[Len(f) + 1], parentUuid |-> p,
                timestamp |-> NextTs(f), type |-> k[1], content |-> k[2],
                isMeta |-> FALSE]) :
        p \in Used(f) \cup {NULL}, k \in TurnKinds}

\* The log as the next Stop event finds it: unchanged, or one record longer.
TurnVersions(f) == {f} \cup (IF Len(f) < MaxLen THEN TurnAppended(f) ELSE {})

InitTurns ==
    /\ file = <<>>
    /\ db = EmptyDb("none")
    /\ last = NoRun
    /\ pc = "idle"
    /\ tx = NoTx
    /\ run = NoJob

\* A Stop event of the session: get_db_connection, sync_session, commit and
\* the hook's output.  last keeps what sync_session returned, the store it
\* was opened on and the branches it detected.
SyncTurns ==
    \E f \in TurnVersions(file) :
      \E order \in OrdersOf(f) :
        \E opened \in {get_db_connection(db)} :
          \E c \in {sync_session(Connect(opened), f, order, TRUE)} :
            \E r \in {stop_hook_main(db, f, TRUE, "session", "ok", order)} :
              /\ IdsWithin(r.db)
              /\ db' = r.db
              /\ file' = f
              /\ last' = [op |-> "sync", path |-> r.path, stdout |-> r.stdout,
                          new_count |-> c.ret, opened |-> opened,
                          unchanged |-> f = file /\ last.op = "sync",
                          branches |-> IF parse_all_with_uuids(f) = <<>> THEN <<>>
                                       ELSE find_all_branches(parse_all_with_uuids(f),
                                                              order)]
              /\ UNCHANGED <<pc, tx, run>>

\* Another session starts in the project: the sessions the hook selects.
SelectTurns ==
    /\ last.op = "sync"
    /\ \E candidates \in
            IF ~\E p \in db.projects : p.key = ProjectKey THEN {<<>>}
            ELSE CandidateOrders(db, (CHOOSE p \in db.projects : p.key = ProjectKey).id,
                                 "s2") :
        last' = [op |-> "context",
                 selected |-> select_sessions(db, ProjectKey, candidates,
                                              MaxContextSessions)]
    /\ UNCHANGED <<file, db, pc, tx, run>>

NextTurns ==
    \/ SyncTurns
    \/ SelectTurns

SpecTurns == InitTurns /\ [][NextTurns]_vars

\* The user records of the log that are no tool results and whose uuid is
\* in the set.
UserTurnsIn(uuids) ==
    {i \in 1..Len(file) : /\ file[i].type = "user"
                          /\ ~file[i].isMeta
                          /\ file[i].content # ToolResult
                          /\ file[i].uuid \in uuids}

OnlyToolResults ==
    /\ file # <<>>
    /\ \A i \in 1..Len(file) : file[i].type = "user" /\ file[i].content = ToolResult

\* C23: a log of tool-result user records alone yields a branch with
\* exchange_count 0 and its session is never selected; in general a branch's
\* exchange_count is the number of its user records that are no tool results.
C23_ExchangeCountIsUserTurns ==
    /\ (last.op = "sync" /\ last.path = "commit") =>
          /\ \A i \in 1..Len(last.branches) :
                \E b \in db.branches :
                    /\ b.leaf_uuid = last.branches[i].leaf_uuid
                    /\ b.exchange_count =
                          Cardinality(UserTurnsIn(last.branches[i].uuids))
          /\ OnlyToolResults => \A b \in db.branches : b.exchange_count = 0
    /\ (last.op = "context" /\ OnlyToolResults) => last.selected = <<>>

\* A log of tool results alone has been synced, with a branch row, and the
\* selector has run on the store.
C23_ToolResultsOnlyWitness ==
    /\ last.op = "context"
    /\ OnlyToolResults
    /\ Len(file) >= 2
    /\ db.branches # {}

\* The message rows of the store that the store the sync opened did not hold.
NewRows == {m \in db.messages : m.id \notin {o.id : o \in last.opened.messages}}

\* C25: sync_session returns the number of message rows the sync added to
\* the store (present at the commit, absent before); the Stop hook prints
\* suppressOutput: true exactly when that number is positive; the sync of a
\* log unchanged since its last sync returns 0 and prints no suppressOutput.
C25_ReturnsRowsAdded ==
    (last.op = "sync" /\ last.path = "commit") =>
        /\ last.new_count = Cardinality(NewRows)
        /\ (last.stdout = <<ContinueSuppress>>) = (last.new_count > 0)
        /\ last.unchanged => last.new_count = 0 /\ last.stdout = <<Continue>>

\* The hook prints suppressOutput exactly when sync_session returned a
\* positive number.
SuppressIffPositive ==
    (last.op = "sync" /\ last.path = "commit") =>
        (last.stdout = <<ContinueSuppress>>) = (last.new_count > 0)

\* The message rows of a branch.
MembersOf(b) ==
    {m \in db.messages : [branch_id |-> b.id, message_id |-> m.id] \in db.branch_messages}

\* C30: after every committed sync each branch row's exchange_count is the
\* number of the user-role message rows that are members of the branch.
C30_ExchangeCountIsStoredTurns ==
    (last.op = "sync" /\ last.path = "commit") =>
        \A b \in db.branches :
            b.exchange_count = Cardinality({m \in MembersOf(b) : m.role = "user"})

\* The same on logs whose user records all keep a text.
StoredTurnsOnPlainText ==
    (/\ last.op = "sync" /\ last.path = "commit"
     /\ \A i \in 1..Len(file) : file[i].content # CommandOnly) =>
        \A b \in db.branches :
            b.exchange_count = Cardinality({m \in MembersOf(b) : m.role = "user"})

\* The log is a single tree: one record has no parent and every other
\* record's parent is a record of the log.  (Uuids are distinct and a child's
\* timestamp is later than its parent's on every log of this specification.)
SingleTree ==
    /\ Cardinality({i \in 1..Len(file) : file[i].parentUuid = NULL}) = 1
    /\ \A i \in 1..Len(file) :
            file[i].parentUuid = NULL \/ file[i].parentUuid \in Used(file)
    /\ Cardinality(Used(file)) = Len(file)
    /\ \A i, j \in 1..Len(file) :
            file[j].parentUuid = file[i].uuid => file[i].timestamp < file[j].timestamp

\* The real user messages of the log: user records that are not isMeta, are
\* no tool results and whose extracted text is not empty.
RealUserMessages ==
    {i \in 1..Len(file) : /\ file[i].type = "user"
                          /\ ~file[i].isMeta
                          /\ ~is_tool_result(file[i].content)
                          /\ extract_text_content(file[i].content) # ""}

\* The record is stored as a user message row of the session and is a member
\* of a branch of the session.
StoredInABranch(r) ==
    \E x \in db.sessions : \E m \in db.messages : \E b \in db.branches :
        /\ x.uuid = SessionUuid
        /\ m.session_id = x.id /\ m.uuid = r.uuid /\ m.role = "user"
        /\ b.session_id = x.id /\ m \in MembersOf(b)

\* C28: when the log is a single tree of records with distinct uuids whose
\* timestamps increase from parent to child, then after a committed sync
\* every real user message of the log is stored as a message row and is a
\* member of at least one branch.
C28_NoUserMessageLost ==
    (last.op = "sync" /\ last.path = "commit" /\ SingleTree) =>
        \A i \in RealUserMessages : StoredInABranch(file[i])

\* A rewound log: a user turn left behind by a rewind, synced and stored in
\* a branch that is not the active one.
C28_RewoundTurnWitness ==
    /\ last.op = "sync" /\ last.path = "commit" /\ SingleTree
    /\ \E i \in RealUserMessages :
        /\ file[i].uuid \notin last.branches[1].uuids
        /\ StoredInABranch(file[i])

\* ------------------------------------------------- project keys and paths

\* Characters of a working directory.
MaxPath == 5

\* The characters a path without "-" is made of.
PathChars == {"/", ".", "a"}

\* The absolute paths of up to MaxPath characters that hold no "-".
AbsolutePaths ==
    UNION {{<<"/">> \o t : t \in [1..n -> PathChars]} : n \in 0..(MaxPath - 1)}

InitKeys ==
    /\ run \in [cwd : AbsolutePaths]
    /\ file = <<>>
    /\ db = EmptyDb("none")
    /\ last = NoRun
    /\ pc = "idle"
    /\ tx = NoTx

\* The session-start hook takes the project key of the working directory;
\* the importers decode a key into the project's path.
Encode ==
    /\ last.op = "none"
    /\ \E k \in {get_project_key(run.cwd)} :
        last' = [op |-> "key", key |-> k, path |-> parse_project_key(k),
                 sync_path |-> project_path_of(k),
                 again |-> get_project_key(parse_project_key(k))]
    /\ UNCHANGED <<file, db, pc, tx, run>>

SpecKeys == InitKeys /\ [][Encode]_vars

\* C24: for every absolute path without "-", with k its project key,
\* encoding the path decoded from k gives k back.
C24_KeyRoundTrip ==
    last.op = "key" => last.again = last.key

\* The same for the paths whose second character is neither "/" nor ".".
KeyRoundTripOnPlainPaths ==
    (/\ last.op = "key"
     /\ Len(run.cwd) >= 2 => run.cwd[2] \notin {"/", "."}) =>
        last.again = last.key

\* sync_session and the bulk importer decode a key into the same path.
SamePathInBothDrivers == last.op = "key" => last.sync_path = last.path

\* --------------------------------- the bulk importer's store and the hooks

\* The messages of a store, each with the uuid of its session.
MessagesByUuid(d) ==
    UNION {{[session |-> x.uuid, uuid |-> m.uuid] :
               m \in {o \in d.messages : o.session_id = x.id}} : x \in d.sessions}

\* C26: a store the bulk importer has made or filled is no old schema to the
\* next get_db_connection, so in every sequence of bulk imports and Stop
\* hooks the sessions and messages the bulk importer wrote are there after a
\* later sync has opened the store.
C26_BulkStoreSurvivesSync ==
    [][/\ last'.op = "bulk" => ~migrate_db(db')
       /\ (last'.op = "sync" /\ db.schema = "v2") =>
              /\ {x.uuid : x \in db.sessions} \subseteq {x.uuid : x \in db'.sessions}
              /\ MessagesByUuid(db) \subseteq MessagesByUuid(db')]_vars

\* A Stop event that opens no store (no log for the session) leaves the bulk
\* importer's store as it is.
QuietStopKeepsStore ==
    [][(last'.op = "sync" /\ last'.session_id = "s2") => db' = db]_vars

\* ------------------------------------------- the branch detector, loop by loop

\* Lines of the log the detector's loops are run on.
MaxLoop == 3

\* Items collect_subtree's stack may hold.
MaxStack == 4

\* The logs of up to n user records, parent pointers that form a cycle
\* included.  (has_user_descendant answers at depth 0 for a user record.)
RECURSIVE AnyLogsUpTo(_)
AnyLogsUpTo(n) ==
    IF n = 0 THEN {<<>>}
    ELSE LET shorter == AnyLogsUpTo(n - 1)
         IN  shorter \cup
             {g \in UNION {Appended(f) : f \in {h \in shorter : Len(h) = n - 1}} :
                g[Len(g)].type = "user"}

\* find_all_branches' locals before its first statement.
NoLocals ==
    [current |-> NULL, active_uuids |-> {}, todo |-> <<>>, uuid |-> NULL,
     stack |-> <<>>, result |-> {}, branches |-> <<>>]

InitLoop ==
    /\ file \in AnyLogsUpTo(MaxLoop)
    /\ db = EmptyDb("none")
    /\ last = NoRun
    /\ pc = "idle"
    /\ tx = NoTx
    /\ run = NoLocals

\* The maps are built; an empty uuid_to_entry returns [].  Otherwise latest is
\* found and the walk to the root starts from it.
FindStart ==
    /\ pc = "idle"
    /\ IF file = <<>>
       THEN /\ pc' = "done"
            /\ last' = [op |-> "detect", branches |-> <<>>]
            /\ run' = run
       ELSE /\ pc' = "walk"
            /\ last' = last
            /\ run' = [run EXCEPT !.current = LatestOf(file).uuid]
    /\ UNCHANGED <<file, db, tx>>

\* One pass of "while current: active_uuids.add(current);
\* current = uuid_to_parent.get(current)".
ActiveStep ==
    /\ pc = "walk"
    /\ run.current # NULL
    /\ run' = [run EXCEPT !.active_uuids = @ \cup {run.current},
                          !.current = uuid_to_parent(file, run.current)]
    /\ UNCHANGED <<file, db, last, pc, tx>>

\* The (fork point, child) pairs "for uuid in active_uuids: for kid in kids"
\* builds a branch for, the fork points in the order given.
RECURSIVE RewindKids(_, _, _)
RewindKids(es, active, order) ==
    IF order = <<>> THEN <<>>
    ELSE LET u    == Head(order)
             kids == children(es, u)
             keep == SelectSeq(kids, LAMBDA k :
                        k \notin active /\ has_user_descendant(es, k, 0))
         IN  (IF Len(kids) <= 1 THEN <<>>
              ELSE [i \in 1..Len(keep) |-> <<u, keep[i]>>])
             \o RewindKids(es, active, Tail(order))

\* The walk has reached a root: the active branch is recorded and the loop
\* over the active uuids starts, in one of the orders a set may be visited.
ActiveEnd ==
    /\ pc = "walk"
    /\ run.current = NULL
    /\ \E order \in Orders({u \in run.active_uuids : Len(children(file, u)) > 1}) :
        run' = [run EXCEPT
                  !.todo = RewindKids(file, run.active_uuids, order),
                  !.branches = << [leaf_uuid       |-> LatestOf(file).uuid,
                                   uuids           |-> run.active_uuids,
                                   is_active       |-> TRUE,
                                   fork_point_uuid |-> NULL] >>]
    /\ pc' = "forks"
    /\ UNCHANGED <<file, db, last, tx>>

\* The next rewind fork: collect_subtree(kid) starts with stack = [kid].
ForkNext ==
    /\ pc = "forks"
    /\ run.todo # <<>>
    /\ run' = [run EXCEPT !.uuid = Head(run.todo)[1],
                          !.stack = <<Head(run.todo)[2]>>,
                          !.result = {},
                          !.todo = Tail(@)]
    /\ pc' = "subtree"
    /\ UNCHANGED <<file, db, last, tx>>

\* One pass of "while stack: node = stack.pop(); result.add(node);
\* stack.extend(children.get(node, []))".
CollectStep ==
    /\ pc = "subtree"
    /\ run.stack # <<>>
    /\ LET node == run.stack[Len(run.stack)]
           rest == SubSeq(run.stack, 1, Len(run.stack) - 1) \o children(file, node)
       IN  /\ Len(rest) <= MaxStack
           /\ run' = [run EXCEPT !.stack = rest, !.result = @ \cup {node}]
    /\ UNCHANGED <<file, db, last, pc, tx>>

\* The stack is empty: the abandoned branch of the subtree is appended.
CollectEnd ==
    /\ pc = "subtree"
    /\ run.stack = <<>>
    /\ run' = [run EXCEPT
                 !.branches = Append(@,
                    [leaf_uuid       |-> SubtreeLeaf(file, run.result).uuid,
                     uuids           |-> PathToRoot(file, run.uuid, {}) \cup run.result,
                     is_active       |-> FALSE,
                     fork_point_uuid |-> run.uuid])]
    /\ pc' = "forks"
    /\ UNCHANGED <<file, db, last, tx>>

\* "return branches"
FindReturn ==
    /\ pc = "forks"
    /\ run.todo = <<>>
    /\ pc' = "done"
    /\ last' = [op |-> "detect", branches |-> run.branches]
    /\ UNCHANGED <<file, db, tx, run>>

NextLoop ==
    \/ FindStart
    \/ ActiveStep
    \/ ActiveEnd
    \/ ForkNext
    \/ CollectStep
    \/ CollectEnd
    \/ FindReturn

\* A call that has started runs on: each loop takes its next pass.
SpecLoop == InitLoop /\ [][NextLoop]_vars /\ WF_vars(NextLoop)

\* C27: find_all_branches terminates on every finite list of records, lists
\* whose parentUuid pointers form a cycle (on the path from the latest record
\* or inside a non-active subtree) included.
C27_DetectorTerminates == <>(pc = "done")

\* On the lists whose pointers form no cycle the call returns.
TerminatesWithoutCycle == Acyclic(file) => <>(pc = "done")

\* Where it returns on such a list, it returns what find_all_branches is
\* defined to return above.
LoopsAgreeWithDetector ==
    (pc = "done" /\ file # <<>> /\ Acyclic(file)) =>
        \E order \in OrdersOf(file) :
            last.branches = find_all_branches(file, order)

\* The stack never reaches the bound on these lists, and a call that has not
\* returned always has a next pass to take: where it does not return, a loop
\* repeats a pass that leaves its locals as they were.
StackBelowBound == Len(run.stack) < MaxStack

NextPassEnabled == pc # "done" => ENABLED NextLoop

=============================================================================
